---- MODULE Spec2Model ----
(***************************************************************************)
(* Model of the ranking-quality engine of src/code/model_utils.py:         *)
(* compute_ranking_metrics and its helper _dcg.                            *)
(*                                                                         *)
(* A call is one behaviour: Init draws the arguments (the observation      *)
(* table, the prediction vector and the cutoff k) from bounded sets and    *)
(* the action ComputeRankingMetrics runs the whole function body.          *)
(*                                                                         *)
(* Floating-point values are modelled exactly: a finite float is a         *)
(* rational num/den (rad = 1), a rank correlation is num / sqrt(rad); NaN  *)
(* is a value of its own.  Targets and predictions are finite or NaN       *)
(* (infinities are outside the modelled inputs).                           *)
(***************************************************************************)
EXTENDS Integers, Sequences, FiniteSets, TLC

VARIABLES
    validation_frame,  \* argument: None or a DataFrame [kind, columns, rows]
    predictions,       \* argument: None or a sequence of floats [kind, values]
    k,                 \* argument: the cutoff
    pc,                \* "call" before the function runs, "done" after it returned
    result,            \* the returned mapping (a function from metric names)
    working,           \* local: the rows left after dropna
    actual_sorted,     \* local: working sorted by the target, descending
    predicted_sorted,  \* local: working sorted by 'predicted', descending
    renaming,          \* the title renaming of the second call (RenamedCall)
    result_renamed,    \* the mapping returned for the renamed table
    top_k_overlap,     \* what calculate_top_k_overlap returned
    df,                \* prepare_features argument: the caller's table
    target,            \* prepare_features argument: the target column name
    exclude_cols,      \* prepare_features argument: None or the caller's sequence
    filter_major_only,              \* prepare_features argument
    drop_major_flag_from_features,  \* prepare_features argument
    verbose,           \* prepare_features argument
    prepared,          \* what prepare_features returned
    printed,           \* the lines prepare_features printed
    pandemic_flag,     \* create_sample_weights argument: the flag column name
    pandemic_weight,   \* create_sample_weights argument
    weights,           \* what create_sample_weights returned
    model,             \* get_top10_predictions argument: the fitted model
    data,              \* get_top10_predictions argument: the dataset
    year,              \* get_top10_predictions argument
    predict_calls,     \* how many times model.predict was invoked
    top10,             \* what get_top10_predictions returned
    log_args,          \* log_results_to_mlflow: the arguments of the call
    mlflow,            \* the tracking library: importable or not, its runs, the calls made
    filesystem,        \* the paths that exist: artifact files and temporary directories
    raised,            \* the exception the call left with, or None
    cleaned,           \* what normalize_domestic_titles returned (its argument is df)
    training,          \* get_dataset_path argument
    config,            \* get_dataset_path argument: None or the caller's mapping
    DEFAULT_CONFIG,    \* module global of dataset_config
    DATASET_CONFIGS,   \* module global of dataset_config
    dataset_path,      \* what get_dataset_path returned
    calls              \* how many calls of get_dataset_path were made

\* the state of a call of compute_ranking_metrics
rankingVars == <<validation_frame, predictions, k, result, working,
                 actual_sorted, predicted_sorted>>

renameVars == <<renaming, result_renamed>>

\* the state of a call of prepare_features
featureVars == <<df, target, exclude_cols, filter_major_only,
                 drop_major_flag_from_features, verbose, prepared, printed>>

\* the state of a call of create_sample_weights (with df)
weightVars == <<pandemic_flag, pandemic_weight, weights>>

\* the state of the functions outside the ranking engine and the feature selector
\* the state of a call of get_top10_predictions (with printed)
top10Vars == <<model, data, year, predict_calls, top10>>

\* the state of a call of log_results_to_mlflow
mlflowVars == <<log_args, mlflow, filesystem, raised>>

\* the state of the dataset layer: normalize_domestic_titles (with df and
\* printed) and get_dataset_path (with raised)
datasetVars == <<cleaned, training, config, DEFAULT_CONFIG, DATASET_CONFIGS,
                 dataset_path, calls>>

otherVars == <<weightVars, top10Vars, mlflowVars, datasetVars>>

vars == <<pc, rankingVars, renameVars, top_k_overlap, featureVars, otherVars>>

(***************************************************************************)
(* Bounds of the model.                                                    *)
(***************************************************************************)
MaxRows == 2

\* the most rows of a table handed to prepare_features
MaxFeatureRows == 3

\* the most rows of the freely drawn datasets of get_top10_predictions
MaxDataRows == 3

\* default of the parameter k
DefaultK == 10

\* the column names of the call: the default of title_col, and the target
\* column of the notebooks' tables
title_col == "title"

target_col == "revenue_domestic"

(***************************************************************************)
(* Values.                                                                 *)
(***************************************************************************)
None == [kind |-> "None"]

NaN == [kind |-> "nan", num |-> 0, den |-> 1, rad |-> 1]

\* no call of create_sample_weights is in progress
WeightsIdle ==
    /\ pandemic_flag = ""
    /\ pandemic_weight = None
    /\ weights = None

\* no call outside the ranking engine and the feature selector is in progress
\* no call of get_top10_predictions is in progress
Top10Idle ==
    /\ model = None
    /\ data = None
    /\ year = 0
    /\ predict_calls = 0
    /\ top10 = None

\* no call of log_results_to_mlflow is in progress
MlflowIdle ==
    /\ log_args = None
    /\ mlflow = None
    /\ filesystem = {}
    /\ raised = None

\* dataset_config.DEFAULT_CONFIG as the module is loaded
DefaultConfigLiteral ==
    [scope |-> "full", year_start |-> 2010, data_dir |-> "../data",
     force_full_validation |-> FALSE]

\* dataset_config.DATASET_CONFIGS as the module is loaded; a file name
\* pattern is the sequence of its pieces, "{year_start}" the replacement field
DatasetConfigsLiteral ==
    LET Subset(name, description, middle, english, major) ==
            [name |-> name,
             description |-> description,
             filename_pattern |->
                <<"dataset_domestic_processed_", middle, "_", "{year_start}", "_2026.csv">>,
             training_filename_pattern |->
                <<"dataset_domestic_processed_", middle, "_", "{year_start}", "_2026.csv">>,
             filter_english |-> english,
             filter_major |-> major]
    IN  [full |-> [name |-> "Full Dataset",
                   description |-> "All studios, all languages",
                   filename_pattern |-> <<"dataset_domestic_processed.csv">>,
                   training_filename_pattern |-> <<"dataset_domestic_processed_modeling.csv">>,
                   filter_english |-> FALSE,
                   filter_major |-> FALSE],
         english |-> Subset("English Only", "English movies only", "english", TRUE, FALSE),
         major |-> Subset("Major Studios", "Major studios only", "major", FALSE, TRUE),
         english_major |-> Subset("English + Major Studios",
                                  "English movies from major studios only",
                                  "english", TRUE, TRUE)]

\* no call of the dataset layer is in progress
DatasetIdle ==
    /\ cleaned = None
    /\ training = FALSE
    /\ config = None
    /\ DEFAULT_CONFIG = DefaultConfigLiteral
    /\ DATASET_CONFIGS = DatasetConfigsLiteral
    /\ dataset_path = None
    /\ calls = 0

OthersIdle == WeightsIdle /\ Top10Idle /\ MlflowIdle /\ DatasetIdle

\* no call of prepare_features is in progress
FeaturesIdle ==
    /\ df = None
    /\ target = ""
    /\ exclude_cols = None
    /\ filter_major_only = FALSE
    /\ drop_major_flag_from_features = FALSE
    /\ verbose = FALSE
    /\ prepared = None
    /\ printed = <<>>

RECURSIVE GCD(_, _)
GCD(a, b) == IF b = 0 THEN a ELSE GCD(b, a % b)

Abs(a) == IF a < 0 THEN -a ELSE a

\* the float num/den (den # 0), in lowest terms with a positive denominator
Float(n, d) ==
    LET g == GCD(Abs(n), Abs(d))
        s == IF d < 0 THEN -1 ELSE 1
    IN  [kind |-> "float", num |-> s * (n \div g), den |-> s * (d \div g), rad |-> 1]

\* the float num / sqrt(rad) (rad > 0)
FloatRoot(n, r) == [kind |-> "float", num |-> n, den |-> 1, rad |-> r]

isfinite(x) == x.kind = "float"

isna(x) == x.kind \in {"nan", "None"}

FAdd(x, y) ==
    IF ~isfinite(x) \/ ~isfinite(y) THEN NaN
    ELSE Float(x.num * y.den + y.num * x.den, x.den * y.den)

FDiv(x, y) ==
    IF ~isfinite(x) \/ ~isfinite(y) \/ y.num = 0 THEN NaN
    ELSE Float(x.num * y.den, x.den * y.num)

\* x < y on finite floats
FLess(x, y) == x.num * y.den < y.num * x.den

Min(a, b) == IF a < b THEN a ELSE b

Max(a, b) == IF a < b THEN b ELSE a

(***************************************************************************)
(* Objects.  The arguments of a call are references to the caller's        *)
(* objects: a store is the sequence of the objects that exist, an object's *)
(* reference is its place in it.  A copy is a new object; an assignment to *)
(* a column or an append changes the object it is applied to.              *)
(***************************************************************************)
\* a new object holding value
Alloc(heap, value) == [heap |-> Append(heap, value), ref |-> Len(heap) + 1]

\* mutant of CopyOf: no copy is taken, the same object is used
Alias(heap, ref) == [heap |-> heap, ref |-> ref]

\* x.copy(), list(x): a new object with the value of the object at ref
CopyOf(heap, ref) == Alloc(heap, heap[ref])

(***************************************************************************)
(* Titles: a title cell holds a string, an integer or nothing.  AsStr is   *)
(* astype(str): the text a cell is compared by.                            *)
(***************************************************************************)
StrTitle(s) == [kind |-> "str", val |-> s]

IntTitle(s) == [kind |-> "int", val |-> s]

NoTitle == [kind |-> "None", val |-> ""]

\* mutant of AsStr: the cell itself, not coerced to text
AsRaw(t) == t

AsStr(t) == IF t.kind = "None" THEN "None" ELSE t.val

(***************************************************************************)
(* The inputs the model draws.                                             *)
(***************************************************************************)
TitleValues == {IntTitle("1"), StrTitle("1"), StrTitle("a")}

TitleCells == TitleValues \cup {NoTitle}

TargetCells == {NaN} \cup {Float(v, 1) : v \in {-2, 1, 2}}

PredCells == {NaN} \cup {Float(v, 1) : v \in {1, 2}}

KValues == (-1 .. MaxRows - 1) \cup {DefaultK}

SeqsUpTo(S, n) == UNION {[1..m -> S] : m \in 0..n}

\* the rows of a table with both columns: every complete row, and rows that
\* miss the title, the target or both
FullRows ==
    [title : TitleValues, revenue_domestic : TargetCells \ {NaN}]
    \cup {[title |-> NoTitle, revenue_domestic |-> Float(1, 1)],
          [title |-> StrTitle("a"), revenue_domestic |-> NaN],
          [title |-> NoTitle, revenue_domestic |-> NaN]}

\* every table over the given columns with at most MaxRows rows
Frames(columns) ==
    LET Rows == IF columns = {title_col, target_col} THEN FullRows
                ELSE IF columns = {title_col} THEN [title : TitleCells]
                ELSE IF columns = {target_col} THEN [revenue_domestic : TargetCells]
                ELSE {<<>>}
    IN  {[kind |-> "DataFrame", columns |-> columns, rows |-> r] :
            r \in SeqsUpTo(Rows, MaxRows)}

\* prediction vectors for a table of n rows: every vector of that length, and
\* one vector of each other length (a vector of another length is never read)
PredictionsFor(n) ==
    {[kind |-> "sequence", values |-> v] :
        v \in [1..n -> PredCells] \cup {[i \in 1..m |-> Float(1, 1)] : m \in 0..(MaxRows + 1)}}

(***************************************************************************)
(* pandas / numpy operations used by compute_ranking_metrics.              *)
(***************************************************************************)
\* len(df)
FrameLen(frame) == Len(frame.rows)

\* np.asarray(predictions, dtype=float)
AsArray(seq) == seq.values

\* validation_frame[[title_col, target_col]].copy(); working['predicted'] = preds
\* (index is the row label the frame keeps through dropna and sort_values)
AttachPredicted(frame, preds) ==
    [i \in 1..Len(frame.rows) |->
        [index |-> i,
         title |-> frame.rows[i][title_col],
         target |-> frame.rows[i][target_col],
         predicted |-> preds[i]]]

\* mutant of Dropna: how='all', a row goes only when it misses both cells
DropnaAll(rows) == SelectSeq(rows, LAMBDA r : ~(isna(r.title) /\ isna(r.target)))

\* mutant of Dropna: no subset, a row goes when any of its cells is missing
DropnaAnyColumn(rows) ==
    SelectSeq(rows, LAMBDA r : ~isna(r.title) /\ ~isna(r.target) /\ ~isna(r.predicted))

\* df.dropna(subset=[title_col, target_col])
Dropna(rows) == SelectSeq(rows, LAMBDA r : ~isna(r.title) /\ ~isna(r.target))

\* df.head(n): the first n rows, or all but the last -n rows when n < 0
DfHead(rows, n) ==
    IF n >= 0 THEN SubSeq(rows, 1, Min(n, Len(rows)))
    ELSE SubSeq(rows, 1, Max(Len(rows) + n, 0))

\* df.sort_values(col, ascending=False): the orders the default, unstable sort
\* (kind='quicksort') can return.  Rows with NaN go last in their original
\* order; the others are in descending order, equal keys in any order.
SortValuesDescending(rows, col) ==
    LET n == Len(rows)
        Ordered(s) ==
            \A i, j \in 1..n : i < j =>
                IF isna(s[i][col]) THEN isna(s[j][col]) /\ s[i].index < s[j].index
                ELSE isna(s[j][col]) \/ ~FLess(s[i][col], s[j][col])
    IN  {s \in {[i \in 1..n |-> rows[p[i]]] : p \in Permutations(1..n)} : Ordered(s)}

\* series.nunique(): the number of distinct non-missing values
Nunique(rows, col) == Cardinality({r[col] : r \in {rows[i] : i \in 1..Len(rows)}} \ {NaN})

Column(rows, col) == [i \in 1..Len(rows) |-> rows[i][col]]

\* np.nanmax: the largest value that is not NaN, NaN when there is none
NanMax(s) ==
    LET vals == {s[i] : i \in 1..Len(s)} \ {NaN}
    IN  IF vals = {} THEN NaN ELSE CHOOSE m \in vals : \A v \in vals : ~FLess(m, v)

(***************************************************************************)
(* _dcg.  1 / log2(i + 1) for i = 1, 2, ... is irrational from i = 2 on;   *)
(* the model keeps it to three decimals.                                   *)
(***************************************************************************)
DiscountScale == 1000

InvLog2 == <<1000, 631, 500, 431, 387, 356>>

\* 1 / np.log2(np.arange(2, size + 2))[i]
InvDiscount(i) == Float(InvLog2[i], DiscountScale)

FMul(x, y) ==
    IF ~isfinite(x) \/ ~isfinite(y) THEN NaN
    ELSE Float(x.num * y.num, x.den * y.den)

RECURSIVE DiscountedSum(_, _)
\* np.sum(scores / discounts) over the first n positions
DiscountedSum(scores, n) ==
    IF n = 0 THEN Float(0, 1)
    ELSE FAdd(DiscountedSum(scores, n - 1), FMul(scores[n], InvDiscount(n)))

_dcg(scores) ==
    IF Len(scores) = 0 THEN Float(0, 1) ELSE DiscountedSum(scores, Len(scores))
(***************************************************************************)
(* scipy.stats.spearmanr and kendalltau (nan_policy='propagate').          *)
(***************************************************************************)
RECURSIVE SumOver(_, _)
\* f[1] + ... + f[n]
SumOver(f, n) == IF n = 0 THEN 0 ELSE f[n] + SumOver(f, n - 1)

\* twice the average rank of each value (ranks are half-integers under ties)
Rank2(x) ==
    [i \in 1..Len(x) |->
        2 * Cardinality({j \in 1..Len(x) : FLess(x[j], x[i])})
        + Cardinality({j \in 1..Len(x) : x[j] = x[i]}) + 1]

HasNaN(x) == \E i \in 1..Len(x) : ~isfinite(x[i])

\* Pearson correlation of the ranks
spearmanr(x, y) ==
    IF HasNaN(x) \/ HasNaN(y) THEN NaN
    ELSE
    LET n == Len(x)
        rx == Rank2(x)
        ry == Rank2(y)
        sx == SumOver(rx, n)
        sy == SumOver(ry, n)
        cov == n * SumOver([i \in 1..n |-> rx[i] * ry[i]], n) - sx * sy
        vx == n * SumOver([i \in 1..n |-> rx[i] * rx[i]], n) - sx * sx
        vy == n * SumOver([i \in 1..n |-> ry[i] * ry[i]], n) - sy * sy
    IN  IF vx * vy = 0 THEN NaN ELSE FloatRoot(cov, vx * vy)

\* tau-b: (concordant - discordant) / sqrt((pairs untied in x) * (pairs untied in y))
kendalltau(x, y) ==
    IF HasNaN(x) \/ HasNaN(y) THEN NaN
    ELSE
    LET n == Len(x)
        Pairs == {p \in (1..n) \X (1..n) : p[1] < p[2]}
        Up(s, p) == FLess(s[p[1]], s[p[2]])
        Down(s, p) == FLess(s[p[2]], s[p[1]])
        con == Cardinality({p \in Pairs : (Up(x, p) /\ Up(y, p)) \/ (Down(x, p) /\ Down(y, p))})
        dis == Cardinality({p \in Pairs : (Up(x, p) /\ Down(y, p)) \/ (Down(x, p) /\ Up(y, p))})
        ux == Cardinality({p \in Pairs : x[p[1]] # x[p[2]]})
        uy == Cardinality({p \in Pairs : y[p[1]] # y[p[2]]})
    IN  IF ux * uy = 0 THEN NaN ELSE FloatRoot(con - dis, ux * uy)

(***************************************************************************)
(* compute_ranking_metrics, after validation: the metrics of the surviving *)
(* rows (w), given the two sorted frames the sort returned.                *)
(***************************************************************************)
MetricKeys ==
    {"top10_overlap", "recall_at_10", "precision_at_10", "ndcg_at_10",
     "spearman_corr", "kendall_corr"}

\* k_actual = min(k, len(actual_sorted)); k_pred likewise
KTop(kk, sorted) == Min(kk, Len(sorted))

\* sorted.head(k)[title_col].astype(str).tolist()
TopTitles(sorted, kk) ==
    LET top == DfHead(sorted, KTop(kk, sorted))
    IN  [i \in 1..Len(top) |-> AsStr(top[i].title)]

SetOf(s) == {s[i] : i \in 1..Len(s)}

\* len(set(actual_top_titles) & set(predicted_top_titles))
Overlap(asorted, psorted, kk) ==
    Cardinality(SetOf(TopTitles(asorted, kk)) \cap SetOf(TopTitles(psorted, kk)))

\* mutant of Ratio: the guard only excludes zero
RatioNonZero(overlap, ktop) == IF ktop # 0 THEN Float(overlap, ktop) ELSE NaN

\* overlap / k_actual if k_actual > 0 else np.nan  (precision: k_pred)
Ratio(overlap, ktop) == IF ktop > 0 THEN Float(overlap, ktop) ELSE NaN

\* max_gain: the largest actual target, or 1.0 when that is not positive
MaxGain(asorted) ==
    LET actual_gains == Column(asorted, "target")
        max_gain == IF Len(actual_gains) > 0 THEN NanMax(actual_gains) ELSE Float(0, 1)
    IN  IF ~isfinite(max_gain) \/ max_gain.num <= 0 THEN Float(1, 1) ELSE max_gain

\* sorted.head(k)[target_col].to_numpy(dtype=float) / max_gain
Gains(sorted, kk, max_gain) ==
    LET top == DfHead(sorted, KTop(kk, sorted))
    IN  [i \in 1..Len(top) |-> FDiv(top[i].target, max_gain)]

\* ndcg = dcg_pred / dcg_ideal if dcg_ideal > 0 else np.nan
Ndcg(asorted, psorted, kk) ==
    LET max_gain == MaxGain(asorted)
        dcg_pred == _dcg(Gains(psorted, kk, max_gain))
        dcg_ideal == _dcg(Gains(asorted, kk, max_gain))
    IN  IF isfinite(dcg_ideal) /\ dcg_ideal.num > 0 THEN FDiv(dcg_pred, dcg_ideal) ELSE NaN

\* the rank correlations on the full surviving set; NaN for a constant series
ConstantSeries(w) == Nunique(w, "target") <= 1 \/ Nunique(w, "predicted") <= 1

\* mutant of SpearmanCorr: a constant series scores 0.0
SpearmanZeroWhenConstant(w) ==
    IF ConstantSeries(w) THEN Float(0, 1)
    ELSE spearmanr(Column(w, "target"), Column(w, "predicted"))

SpearmanCorr(w) ==
    IF ConstantSeries(w) THEN NaN
    ELSE spearmanr(Column(w, "target"), Column(w, "predicted"))

KendallCorr(w) ==
    IF ConstantSeries(w) THEN NaN
    ELSE kendalltau(Column(w, "target"), Column(w, "predicted"))

\* mutant of FiniteOrNone: float(x), whatever x is
KeepNonFinite(x) == x

\* float(x) if np.isfinite(x) else None
FiniteOrNone(x) == IF isfinite(x) THEN x ELSE None

\* {key: value for key, value in metrics.items() if value is not None}
DropNone(metrics) ==
    [key \in {kk \in DOMAIN metrics : metrics[kk] # None} |-> metrics[key]]

RankingMetrics(w, asorted, psorted, kk) ==
    LET overlap == Overlap(asorted, psorted, kk)
        recall == Ratio(overlap, KTop(kk, asorted))
        precision == Ratio(overlap, KTop(kk, psorted))
        ndcg == Ndcg(asorted, psorted, kk)
        spearman == SpearmanCorr(w)
        kendall == KendallCorr(w)
        metrics ==
            [key \in MetricKeys |->
                CASE key = "top10_overlap" -> Float(overlap, 1)
                  [] key = "recall_at_10" -> FiniteOrNone(recall)
                  [] key = "precision_at_10" -> FiniteOrNone(precision)
                  [] key = "ndcg_at_10" -> FiniteOrNone(ndcg)
                  [] key = "spearman_corr" -> FiniteOrNone(spearman)
                  [] key = "kendall_corr" -> FiniteOrNone(kendall)]
    IN  DropNone(metrics)

\* the empty mapping {}
EmptyMapping == [key \in {} |-> None]

\* the early returns of lines 382-389
Absent(frame, seq) == frame = None \/ seq = None

ColumnsMissing(frame) == title_col \notin frame.columns \/ target_col \notin frame.columns

\* mutant of LengthMismatch: only a vector that is too short is rejected
LengthTooShort(frame, preds) == Len(preds) < FrameLen(frame)

LengthMismatch(frame, preds) == Len(preds) # FrameLen(frame)

Rejected(frame, seq) ==
    \/ Absent(frame, seq)
    \/ ColumnsMissing(frame)
    \/ LengthMismatch(frame, AsArray(seq))

(***************************************************************************)
(* The call.                                                               *)
(***************************************************************************)
Init ==
    /\ \E columns \in SUBSET {title_col, target_col} :
         /\ validation_frame \in Frames(columns) \cup {None}
         /\ predictions \in
              IF validation_frame = None THEN PredictionsFor(0) \cup {None}
              ELSE PredictionsFor(FrameLen(validation_frame)) \cup {None}
    /\ k \in KValues
    /\ pc = "call"
    /\ result = EmptyMapping
    /\ working = <<>>
    /\ actual_sorted = <<>>
    /\ predicted_sorted = <<>>
    /\ renaming = <<>>
    /\ result_renamed = EmptyMapping
    /\ top_k_overlap = None
    /\ FeaturesIdle
    /\ OthersIdle

\* lines 391-392 on the store: the caller's table is object 1; the selection
\* of the two columns is a new table, working is a copy of it, and the
\* column 'predicted' is set on working.  The caller's table afterwards.
FrameAfterRanking(frame, preds) ==
    LET selected == Alloc(<<frame>>,
                          [frame EXCEPT !.columns = {title_col, target_col},
                                        !.rows = [i \in 1..Len(frame.rows) |->
                                                    [col \in {title_col, target_col} |->
                                                        frame.rows[i][col]]]])
        copied == CopyOf(selected.heap, selected.ref)
        assigned == [copied.heap EXCEPT
                        ![copied.ref].columns = @ \cup {"predicted"},
                        ![copied.ref].rows = [i \in 1..Len(@) |-> @[i] @@ ("predicted" :> preds[i])]]
    IN  assigned[1]

\* the body of compute_ranking_metrics, lines 382-443
RankingBody ==
    /\ validation_frame' = IF Rejected(validation_frame, predictions) THEN validation_frame
                           ELSE FrameAfterRanking(validation_frame, AsArray(predictions))
    /\ UNCHANGED <<predictions, k>>
    /\ IF Rejected(validation_frame, predictions)
       THEN /\ result' = EmptyMapping
            /\ UNCHANGED <<working, actual_sorted, predicted_sorted>>
       ELSE /\ working' = Dropna(AttachPredicted(validation_frame, AsArray(predictions)))
            /\ IF working' = <<>>
               THEN /\ result' = EmptyMapping
                    /\ UNCHANGED <<actual_sorted, predicted_sorted>>
               ELSE /\ actual_sorted' \in SortValuesDescending(working', "target")
                    /\ predicted_sorted' \in SortValuesDescending(working', "predicted")
                    /\ result' = RankingMetrics(working', actual_sorted', predicted_sorted', k)

ComputeRankingMetrics ==
    /\ pc = "call"
    /\ pc' = "done"
    /\ RankingBody
    /\ UNCHANGED <<renameVars, top_k_overlap, featureVars, otherVars>>

Next == ComputeRankingMetrics

Spec == Init /\ [][Next]_vars

(***************************************************************************)
(* A second call on the same table with its titles renamed: every title f  *)
(* maps to another title, a missing title stays missing.  Targets,         *)
(* predictions, row order and k are those of the first call, so the two    *)
(* sorts see the same key arrays and return the same row orders.           *)
(***************************************************************************)
\* the titles that occur in the table
TitlesOf(frame) == {frame.rows[i][title_col] : i \in 1..Len(frame.rows)} \ {NoTitle}

\* the renaming functions of a table's titles
Renamings(frame) == [TitlesOf(frame) -> TitleValues]

RenameTitle(t, f) == IF isna(t) THEN t ELSE f[t]

RenameRows(rows, f) ==
    [i \in 1..Len(rows) |-> [rows[i] EXCEPT !.title = RenameTitle(rows[i].title, f)]]

RenameFrame(frame, f) ==
    [frame EXCEPT !.rows =
        [i \in 1..Len(frame.rows) |->
            [frame.rows[i] EXCEPT ![title_col] = RenameTitle(frame.rows[i][title_col], f)]]]

RenamedCall ==
    /\ pc = "done"
    /\ pc' = "renamed"
    /\ UNCHANGED <<rankingVars, top_k_overlap, featureVars, otherVars>>
    /\ \E f \in Renamings(validation_frame) :
         /\ renaming' = f
         /\ IF Rejected(validation_frame, predictions)
            THEN result_renamed' = EmptyMapping
            ELSE LET w == Dropna(AttachPredicted(RenameFrame(validation_frame, f),
                                                 AsArray(predictions)))
                 IN  IF w = <<>>
                     THEN result_renamed' = EmptyMapping
                     ELSE result_renamed' =
                              RankingMetrics(w, RenameRows(actual_sorted, f),
                                             RenameRows(predicted_sorted, f), k)

\* the tables of the renaming runs: both columns, no missing cell, and
\* predictions of the table's length
InitRename ==
    /\ validation_frame \in
         {[kind |-> "DataFrame", columns |-> {title_col, target_col}, rows |-> r] :
             r \in SeqsUpTo([title : TitleValues, revenue_domestic : {Float(1, 1), Float(2, 1)}],
                            MaxRows)}
    /\ predictions \in
         {[kind |-> "sequence", values |-> v] :
             v \in [1..FrameLen(validation_frame) -> {Float(1, 1), Float(2, 1)}]}
    /\ k \in {1, DefaultK}
    /\ pc = "call"
    /\ result = EmptyMapping
    /\ working = <<>>
    /\ actual_sorted = <<>>
    /\ predicted_sorted = <<>>
    /\ renaming = <<>>
    /\ result_renamed = EmptyMapping
    /\ top_k_overlap = None
    /\ FeaturesIdle
    /\ OthersIdle

NextRename == ComputeRankingMetrics \/ RenamedCall

SpecRename == InitRename /\ [][NextRename]_vars

(***************************************************************************)
(* calculate_top_k_overlap: the overlap-only entry point.  It calls        *)
(* compute_ranking_metrics with its own arguments and returns the overlap  *)
(* count of the mapping, or None.                                          *)
(***************************************************************************)
\* a Python int
PyInt(n) == [kind |-> "int", num |-> n]

\* int(x) of a finite float (rad = 1): truncation toward zero
int(x) ==
    IF x.num >= 0 THEN PyInt(x.num \div x.den) ELSE PyInt(-((-x.num) \div x.den))

\* metrics.get(key): the value, or None when the key is absent
DictGet(metrics, key) == IF key \in DOMAIN metrics THEN metrics[key] ELSE None

\* mutant of OverlapOf: the truthiness of the count is tested, not its presence
OverlapOfTruthy(metrics) ==
    IF DOMAIN metrics = {} THEN None
    ELSE IF DictGet(metrics, "top10_overlap") # None
            /\ DictGet(metrics, "top10_overlap").num # 0
         THEN int(DictGet(metrics, "top10_overlap"))
         ELSE None

\* lines 360-362: None for a falsy (empty) mapping, else the count as an int
OverlapOf(metrics) ==
    IF DOMAIN metrics = {} THEN None
    ELSE IF DictGet(metrics, "top10_overlap") # None
         THEN int(DictGet(metrics, "top10_overlap"))
         ELSE None

CalculateTopKOverlap ==
    /\ pc = "call"
    /\ pc' = "done"
    /\ RankingBody
    /\ top_k_overlap' = OverlapOf(result')
    /\ UNCHANGED <<renameVars, featureVars, otherVars>>

NextOverlap == CalculateTopKOverlap

SpecOverlap == Init /\ [][NextOverlap]_vars

(***************************************************************************)
(* prepare_features: the feature selector.  A table is a record of its     *)
(* column names in order, the dtype of each column and its rows; a cell is *)
(* a str, an int, a bool, a float, NaN or None.                            *)
(***************************************************************************)
DEFAULT_EXCLUDE_COLS ==
    <<"adult", "backdrop_path", "genre_ids", "id", "original_language",
      "original_title", "overview", "poster_path", "release_date", "title",
      "video", "genres", "title_normalized", "rank", "distributor",
      "genre_names", "release_month_name", "nearest_holiday",
      "nearby_major_releases_max_revenue", "days_to_nearest_major_release",
      "domestic_revenue", "revenue_domestic", "revenue",
      "primary_genre", "release_season", "competition_intensity",
      "popularity", "vote_average", "vote_count",
      "release_year">>

PyStr(s) == [kind |-> "str", val |-> s]

PyBool(b) == [kind |-> "bool", val |-> b]

\* a Python sequence object (list or tuple) of the given items
PySeq(items) == [kind |-> "sequence", values |-> items]

\* pd.api.types.is_numeric_dtype: integers, floats and booleans
is_numeric_dtype(dtype) == dtype \in {"int64", "float64", "bool"}

\* pd.api.types.is_bool_dtype
is_bool_dtype(dtype) == dtype = "bool"

\* frame[col]: the cells of a column, in row order
Series(frame, col) == [i \in 1..Len(frame.rows) |-> frame.rows[i][col]]

RECURSIVE UniqueUpTo(_, _)
\* the distinct values among the first n, in order of first appearance
UniqueUpTo(series, n) ==
    IF n = 0 THEN <<>>
    ELSE LET before == UniqueUpTo(series, n - 1)
         IN  IF series[n] \in SetOf(before) THEN before ELSE Append(before, series[n])

\* df_prepared[df_prepared['is_major_studio'] == 1].copy(); == 1 is true
\* elementwise of the int 1, the float 1.0 and True
MajorOnly(frame) ==
    LET EqualsOne(v) == v = PyInt(1) \/ v = Float(1, 1) \/ v = PyBool(TRUE)
    IN  [frame EXCEPT !.rows = SelectSeq(@, LAMBDA r : EqualsOne(r["is_major_studio"]))]

\* lines 75-85 on the store: the caller's table is object 1, the caller's
\* exclusion sequence (or None) object 2.  df_prepared is a copy of the
\* table, and a copy of its major-studio rows when the filter applies;
\* exclude_cols becomes a new list, to which the flag is appended.
PrepareStore(frame, excl, filter, drop) ==
    LET copied == CopyOf(<<frame, excl>>, 1)
        prepared_df ==
            IF filter /\ "is_major_studio" \in SetOf(copied.heap[copied.ref].columns)
            THEN LET selected == Alloc(copied.heap, MajorOnly(copied.heap[copied.ref]))
                 IN  CopyOf(selected.heap, selected.ref)
            ELSE copied
        list == IF excl = None THEN Alloc(prepared_df.heap, PySeq(DEFAULT_EXCLUDE_COLS))
                ELSE CopyOf(prepared_df.heap, 2)
        appended == IF drop
                    THEN [list.heap EXCEPT ![list.ref].values = Append(@, "is_major_studio")]
                    ELSE list.heap
    IN  [heap |-> appended, df_prepared |-> prepared_df.ref, exclude_cols |-> list.ref]

\* series.dropna().unique() of a column
Distinct(frame, col) ==
    LET dropna == SelectSeq(Series(frame, col), LAMBDA v : ~isna(v))
    IN  UniqueUpTo(dropna, Len(dropna))

\* mutant of Admitted: the bound on distinct values is 3
AdmittedUpToThree(frame, col) ==
    \/ is_numeric_dtype(frame.dtypes[col])
    \/ is_bool_dtype(frame.dtypes[col])
    \/ Len(Distinct(frame, col)) <= 3

\* lines 96-105: the admission rule of one column
Admitted(frame, col) ==
    \/ is_numeric_dtype(frame.dtypes[col])
    \/ is_bool_dtype(frame.dtypes[col])
    \/ Len(Distinct(frame, col)) <= 2

\* lines 91-105: feature_cols
FeatureCols(frame, potential) == SelectSeq(potential, LAMBDA col : Admitted(frame, col))

\* lines 92-107: excluded_strings, a dict in insertion order: the columns
\* not admitted, each with its first five distinct values
ExcludedStrings(frame, potential) ==
    LET left == SelectSeq(potential, LAMBDA col : ~Admitted(frame, col))
    IN  [i \in 1..Len(left) |->
            [col |-> left[i],
             sample |-> SubSeq(Distinct(frame, left[i]), 1,
                               Min(5, Len(Distinct(frame, left[i]))))]]

\* one printed line
Line(what, col, value) == [line |-> what, col |-> col, value |-> value]

\* lines 109-125: the lines of the summary, in print order
Summary(frame, feature_cols, excluded_strings, filter) ==
    LET \* df_prepared[feature_cols].isnull().sum(), the positive counts only
        Nulls(col) == Len(SelectSeq(Series(frame, col), LAMBDA v : isna(v)))
        with == SelectSeq(feature_cols, LAMBDA col : Nulls(col) > 0)
        missing == [i \in 1..Len(with) |-> [col |-> with[i], count |-> Nulls(with[i])]]
    IN  <<Line("summary", "", 0)>>
        \o (IF filter THEN <<Line("rows", "", Len(frame.rows))>> ELSE <<>>)
        \o <<Line("candidates", "", Len(feature_cols))>>
        \o (IF excluded_strings # <<>>
            THEN <<Line("excluded header", "", 0)>>
                 \o [i \in 1..Len(excluded_strings) |->
                        Line("excluded", excluded_strings[i].col, excluded_strings[i].sample)]
            ELSE <<>>)
        \o (IF missing # <<>>
            THEN <<Line("missing header", "", 0)>>
                 \o [i \in 1..Len(missing) |->
                        Line("missing", missing[i].col, missing[i].count)]
            ELSE <<Line("no missing", "", 0)>>)

PrepareFeatures ==
    /\ pc = "call"
    /\ pc' = "done"
    /\ df.kind = "DataFrame"
    /\ LET store == PrepareStore(df, exclude_cols, filter_major_only,
                                 drop_major_flag_from_features)
           df_prepared == store.heap[store.df_prepared]
           excluded == store.heap[store.exclude_cols].values
           \* lines 87-89
           potential_features ==
               SelectSeq(df_prepared.columns, LAMBDA col : col \notin SetOf(excluded))
           feature_cols == FeatureCols(df_prepared, potential_features)
           excluded_strings == ExcludedStrings(df_prepared, potential_features)
       IN  /\ printed' = IF verbose
                         THEN Summary(df_prepared, feature_cols, excluded_strings,
                                      filter_major_only)
                         ELSE <<>>
           /\ prepared' = [df_prepared |-> df_prepared,
                           feature_cols |-> feature_cols,
                           target |-> target]
           /\ df' = store.heap[1]
           /\ exclude_cols' = store.heap[2]
    /\ UNCHANGED <<target, filter_major_only, drop_major_flag_from_features, verbose>>
    /\ UNCHANGED <<rankingVars, renameVars, top_k_overlap, otherVars>>

\* no call of the ranking functions is in progress
RankingIdle ==
    /\ validation_frame = None
    /\ predictions = None
    /\ k = DefaultK
    /\ result = EmptyMapping
    /\ working = <<>>
    /\ actual_sorted = <<>>
    /\ predicted_sorted = <<>>
    /\ renaming = <<>>
    /\ result_renamed = EmptyMapping
    /\ top_k_overlap = None

TitleTexts ==
    <<"t1", "t2", "t3", "t4", "t5", "t6", "t7", "t8", "t9", "t10",
      "t11", "t12", "t13", "t14", "t15", "t16">>

\* the tables drawn, of up to MaxFeatureRows rows.  FeatureLayouts: the column
\* layouts, with and without the major-studio flag and the target, in two
\* column orders.  TablesOf: the tables of a layout with n rows, where the
\* studio and the major-studio flag of each row are free, a title is unique
\* to its row and the first budget is missing
FeatureTables ==
    LET FeatureLayouts ==
            {<<"title", "studio", "budget", "is_major_studio", "revenue_domestic">>,
             <<"revenue_domestic", "is_major_studio", "is_sequel", "studio">>,
             <<"studio", "title">>}
        DtypeOf(col) ==
            CASE col \in {"title", "studio"} -> "object"
              [] col = "is_sequel" -> "bool"
              [] col = "is_major_studio" -> "int64"
              [] OTHER -> "float64"
        StudioCells == {PyStr("a"), PyStr("b"), PyStr("c"), None}
        MajorCells == {PyInt(0), PyInt(1)}
        TablesOf(layout, n) ==
            {[kind |-> "DataFrame",
              columns |-> layout,
              dtypes |-> [col \in SetOf(layout) |-> DtypeOf(col)],
              rows |-> [i \in 1..n |->
                          [col \in SetOf(layout) |->
                              CASE col = "title" -> PyStr(TitleTexts[i])
                                [] col = "studio" -> studio[i]
                                [] col = "is_major_studio" -> major[i]
                                [] col = "is_sequel" -> PyBool(i = 1)
                                [] col = "budget" -> IF i = 1 THEN NaN ELSE Float(i, 1)
                                [] OTHER -> Float(i, 1)]]] :
                studio \in [1..n -> StudioCells], major \in [1..n -> MajorCells]}
    IN  UNION {TablesOf(layout, n) : layout \in FeatureLayouts, n \in 0..MaxFeatureRows}

InitFeatures ==
    /\ pc = "call"
    /\ RankingIdle
    /\ df \in FeatureTables
    /\ target \in {"revenue_domestic", "budget"}
    /\ exclude_cols \in {None, PySeq(<<>>), PySeq(<<"studio", "revenue_domestic">>)}
    /\ filter_major_only \in BOOLEAN
    /\ drop_major_flag_from_features \in BOOLEAN
    /\ verbose \in BOOLEAN
    /\ prepared = None
    /\ printed = <<>>
    /\ OthersIdle

NextFeatures == PrepareFeatures

SpecFeatures == InitFeatures /\ [][NextFeatures]_vars

(***************************************************************************)
(* The two functions that take copies of their inputs, side by side: a     *)
(* call of prepare_features or a call of compute_ranking_metrics, on the   *)
(* caller's objects.                                                       *)
(***************************************************************************)
InitInputs ==
    \/ InitRename
    \/ /\ InitFeatures
       /\ target = "revenue_domestic"
       /\ ~verbose

NextInputs == PrepareFeatures \/ ComputeRankingMetrics

SpecInputs == InitInputs /\ [][NextInputs]_vars

(***************************************************************************)
(* create_sample_weights.                                                  *)
(***************************************************************************)
\* a numpy array of the given values
\* astype(bool) of one cell: the truth value of the Python or numpy value;
\* NaN is a non-zero float and so True, None is False
AsBool(v) ==
    CASE v.kind = "bool" -> v.val
      [] v.kind = "int" -> v.num # 0
      [] v.kind = "float" -> v.num # 0
      [] v.kind = "nan" -> TRUE
      [] v.kind = "None" -> FALSE
      [] v.kind = "str" -> v.val # ""

\* lines 137-141
SampleWeights(frame, flag, weight) ==
    LET ones == [i \in 1..Len(frame.rows) |-> Float(1, 1)]
    IN  IF flag \in SetOf(frame.columns)
        THEN LET mask == [i \in 1..Len(frame.rows) |-> AsBool(Series(frame, flag)[i])]
             IN  [i \in 1..Len(ones) |-> IF mask[i] THEN weight ELSE ones[i]]
        ELSE ones

CreateSampleWeights ==
    /\ pc = "call"
    /\ pc' = "done"
    /\ weights' = [kind |-> "ndarray",
                   values |-> SampleWeights(df, pandemic_flag, pandemic_weight)]
    /\ UNCHANGED <<df, pandemic_flag, pandemic_weight>>
    /\ UNCHANGED <<target, exclude_cols, filter_major_only,
                   drop_major_flag_from_features, verbose, prepared, printed>>
    /\ UNCHANGED <<rankingVars, renameVars, top_k_overlap, top10Vars, mlflowVars, datasetVars>>

\* tables with a flag column of some dtype beside a budget, and tables
\* without the flag column; FlagCells: the cells a flag column of each dtype
\* can hold
WeightTables ==
    LET FlagCells(dtype) ==
            CASE dtype = "bool" -> {PyBool(TRUE), PyBool(FALSE)}
              [] dtype = "int64" -> {PyInt(0), PyInt(1)}
              [] dtype = "float64" -> {Float(0, 1), Float(1, 1), NaN}
              [] dtype = "object" -> {PyBool(TRUE), PyBool(FALSE), None}
    IN
    UNION {{[kind |-> "DataFrame",
             columns |-> <<"is_pandemic_year", "budget">>,
             dtypes |-> [col \in {"is_pandemic_year", "budget"} |->
                            IF col = "budget" THEN "float64" ELSE dtype],
             rows |-> [i \in 1..n |->
                         [col \in {"is_pandemic_year", "budget"} |->
                             IF col = "budget" THEN Float(i, 1) ELSE flags[i]]]] :
               flags \in [1..n -> FlagCells(dtype)]} :
            dtype \in {"bool", "int64", "float64", "object"}, n \in 0..MaxFeatureRows}
    \cup {[kind |-> "DataFrame",
           columns |-> <<"budget">>,
           dtypes |-> [col \in {"budget"} |-> "float64"],
           rows |-> [i \in 1..n |-> [col \in {"budget"} |-> Float(i, 1)]]] :
             n \in 0..MaxFeatureRows}

InitWeights ==
    /\ pc = "call"
    /\ RankingIdle
    /\ df \in WeightTables
    /\ target = ""
    /\ exclude_cols = None
    /\ filter_major_only = FALSE
    /\ drop_major_flag_from_features = FALSE
    /\ verbose = FALSE
    /\ prepared = None
    /\ printed = <<>>
    /\ pandemic_flag \in {"is_pandemic_year", "is_covid_year"}
    /\ pandemic_weight \in {Float(3, 10), Float(1, 2)}
    /\ weights = None
    /\ Top10Idle
    /\ MlflowIdle
    /\ DatasetIdle

NextWeights == CreateSampleWeights

SpecWeights == InitWeights /\ [][NextWeights]_vars

(***************************************************************************)
(* get_top10_predictions: the top-k report builder.  The model predicts on *)
(* the log scale: a prediction is log1p(v), which expm1 turns back into v. *)
(***************************************************************************)
DEFAULT_FEATURE_FLAGS ==
    <<"is_marvel", "is_dc", "is_star_wars", "is_superhero", "is_sequel",
      "is_live_action_remake", "is_major_studio", "is_disney",
      "is_english", "is_origin_usa", "is_origin_uk_ie", "is_origin_canada",
      "is_origin_us_uk_ca">>

\* the n of nlargest
TopN == 10

\* the feature columns the model was fitted on
feature_cols == <<"budget">>

\* the log-scale value ln(1 + v)
Log1p(v) == [kind |-> "log1p", of |-> v]

\* np.expm1 of a model output: e^x - 1
expm1(x) ==
    IF x.kind = "log1p" THEN x.of
    ELSE IF x.kind = "float" /\ x.num = 0 THEN x
    ELSE NaN

\* data[data['release_year'] == year].copy(); each row of the table carries
\* its index label
YearData(frame, y) ==
    LET indexed == [i \in 1..Len(frame.rows) |-> frame.rows[i] @@ ("index" :> i)]
    IN  SelectSeq(indexed, LAMBDA r : r["release_year"] = PyInt(y))

\* year_data[feature_cols]
Project(rows, cols) == [i \in 1..Len(rows) |-> [col \in SetOf(cols) |-> rows[i][col]]]

\* frame[col] = values
WithColumn(rows, col, values) == [i \in 1..Len(rows) |-> rows[i] @@ (col :> values[i])]

RECURSIVE StableDescending(_, _, _)
\* the first n rows in descending order of col, equal keys in original
\* order (argsort(kind='mergesort') of the negated values)
StableDescending(rows, col, n) ==
    IF n = 0 THEN <<>>
    ELSE LET before == StableDescending(rows, col, n - 1)
             p == Cardinality({i \in 1..Len(before) : ~FLess(before[i][col], rows[n][col])})
         IN  SubSeq(before, 1, p) \o <<rows[n]>> \o SubSeq(before, p + 1, Len(before))

\* frame.nlargest(n, col), keep='first': when n >= len(frame) pandas returns
\* sort_values(ascending=False).head(n); otherwise it selects the n largest
\* of the non-missing values with a stable sort and fills up with the rows
\* whose value is missing.  The set of the frames the call can return.
Nlargest(rows, n, col) ==
    IF n >= Len(rows)
    THEN {DfHead(sorted, n) : sorted \in SortValuesDescending(rows, col)}
    ELSE LET dropped == SelectSeq(rows, LAMBDA r : ~isna(r[col]))
             nan_index == SelectSeq(rows, LAMBDA r : isna(r[col]))
         IN  {DfHead(StableDescending(dropped, col, Len(dropped)) \o nan_index, n)}

\* lines 197-203: the columns added to year_data
WithRevenueColumns(year_data, y_pred, frame) ==
    LET FSub(x, y) ==
            IF ~isfinite(x) \/ ~isfinite(y) THEN NaN
            ELSE Float(x.num * y.den - y.num * x.den, x.den * y.den)
        predicted == WithColumn(year_data, "predicted_revenue", y_pred)
    IN  IF target_col \in SetOf(frame.columns)
        THEN LET actual == WithColumn(predicted, "actual_revenue",
                                      [i \in 1..Len(predicted) |-> predicted[i][target_col]])
                 error == WithColumn(actual, "prediction_error",
                                     [i \in 1..Len(actual) |->
                                         FSub(actual[i]["actual_revenue"],
                                              actual[i]["predicted_revenue"])])
             IN  WithColumn(error, "prediction_error_pct",
                            [i \in 1..Len(error) |->
                                FMul(FDiv(error[i]["prediction_error"],
                                          error[i]["actual_revenue"]),
                                     Float(100, 1))])
        ELSE predicted

\* lines 207-212: display_cols
DisplayCols(frame) ==
    <<"title", "predicted_revenue">>
    \o (IF target_col \in SetOf(frame.columns)
        THEN <<"actual_revenue", "prediction_error_pct">> ELSE <<>>)
    \o SelectSeq(DEFAULT_FEATURE_FLAGS, LAMBDA flag : flag \in SetOf(frame.columns))

GetTop10Predictions ==
    /\ pc = "call"
    /\ pc' = "done"
    /\ LET year_data == YearData(data, year)
       IN  IF year_data = <<>>
           THEN /\ printed' = <<Line("no data", "", year)>>
                /\ top10' = None
                /\ UNCHANGED predict_calls
           ELSE LET X_year == Project(year_data, feature_cols)
                    y_pred_log == [i \in 1..Len(X_year) |-> model.predict[X_year[i]]]
                    y_pred == [i \in 1..Len(X_year) |-> expm1(y_pred_log[i])]
                    scored == WithRevenueColumns(year_data, y_pred, data)
                IN  /\ predict_calls' = predict_calls + 1
                    /\ \E top \in Nlargest(scored, TopN, "predicted_revenue") :
                          \* top10[display_cols].reset_index(drop=True)
                          top10' = [kind |-> "DataFrame",
                                    columns |-> DisplayCols(data),
                                    rows |-> Project(top, DisplayCols(data))]
                    /\ UNCHANGED printed
    /\ UNCHANGED <<model, data, year>>
    /\ UNCHANGED <<df, target, exclude_cols, filter_major_only,
                   drop_major_flag_from_features, verbose, prepared>>
    /\ UNCHANGED <<rankingVars, renameVars, top_k_overlap, weightVars, mlflowVars, datasetVars>>

\* the datasets drawn.  DataTable: a dataset of a layout whose row i has the
\* given year and budget.  ShortData: every dataset of at most MaxDataRows
\* rows.  LongData: datasets with more than TopN rows of the year 2020, whose
\* predictions tie across the cutoff
Datasets ==
    LET DataLayouts ==
            {<<"title", "release_year", "budget", "revenue_domestic", "is_sequel">>,
             <<"title", "release_year", "budget">>}
        DataTable(layout, n, years, budgets) ==
            [kind |-> "DataFrame",
             columns |-> layout,
             rows |-> [i \in 1..n |->
                         [col \in SetOf(layout) |->
                             CASE col = "title" -> PyStr(TitleTexts[i])
                               [] col = "release_year" -> PyInt(years[i])
                               [] col = "budget" -> Float(budgets[i], 1)
                               [] col = "is_sequel" -> PyBool(i = 1)
                               [] OTHER -> Float(i, 1)]]]
        ShortData ==
            {DataTable(layout, n, years, budgets) :
                layout \in DataLayouts,
                n \in 0..MaxDataRows,
                years \in [1..MaxDataRows -> {2019, 2020}],
                budgets \in [1..MaxDataRows -> {1, 2}]}
        LongData ==
            {DataTable(layout, TopN + n, [i \in 1..(TopN + n) |-> 2020], budgets) :
                layout \in DataLayouts,
                n \in 1..MaxDataRows,
                budgets \in {[i \in 1..(TopN + MaxDataRows) |-> 1],
                             [i \in 1..(TopN + MaxDataRows) |-> (i % 2) + 1],
                             [i \in 1..(TopN + MaxDataRows) |-> IF i % 3 = 0 THEN 2 ELSE 1]}}
    IN  ShortData \cup LongData

InitTop10 ==
    /\ pc = "call"
    /\ RankingIdle
    /\ FeaturesIdle
    /\ WeightsIdle
    \* the fitted models: a prediction for each feature row
    /\ model \in {[kind |-> "model", predict |-> f] :
                    f \in [[{"budget"} -> {Float(1, 1), Float(2, 1)}] ->
                              {Log1p(Float(1, 1)), Log1p(Float(2, 1)), NaN}]}
    /\ data \in Datasets
    /\ year \in {2020, 2021}
    /\ predict_calls = 0
    /\ top10 = None
    /\ MlflowIdle
    /\ DatasetIdle

NextTop10 == GetTop10Predictions

SpecTop10 == InitTop10 /\ [][NextTop10]_vars

(***************************************************************************)
(* log_results_to_mlflow: the experiment-log sink.  The tracking library   *)
(* is a record: whether it can be imported, whether its artifact store     *)
(* takes uploads, its runs, the stack of active runs and the calls made to *)
(* it, in order.  A dict is a function from its keys; a path is the        *)
(* sequence of its components.                                             *)
(***************************************************************************)
\* the empty dict
EmptyDict == [key \in {} |-> None]

\* bool(x) of an optional dict or str
Truthy(x) ==
    CASE x.kind = "None" -> FALSE
      [] x.kind = "str" -> x.val # ""
      [] x.kind = "dict" -> DOMAIN x.items # {}
      [] OTHER -> TRUE

PyDict(items) == [kind |-> "dict", items |-> items]

\* a dict with the insertion order of its keys
OrderedDict(order, items) == [kind |-> "dict", items |-> items, order |-> order]

\* str(value)
str(v) ==
    CASE v.kind = "str" -> v
      [] v.kind = "int" -> PyStr(ToString(v.num))
      [] v.kind = "bool" -> PyStr(IF v.val THEN "True" ELSE "False")
      [] v.kind = "None" -> PyStr("None")
      [] v.kind = "sequence" -> PyStr(ToString(v.values))
      [] OTHER -> PyStr(ToString(v))

\* one call made to the tracking library
Call(op, run, item) == [op |-> op, run |-> run, item |-> item]

\* a new run becomes the active one
NewRun(m, name) ==
    [m EXCEPT !.runs = Append(@, [name |-> name, status |-> "RUNNING", items |-> <<>>]),
              !.active = Append(@, Len(m.runs) + 1),
              !.calls = Append(@, Call("start_run", Len(m.runs) + 1, name))]

\* the end of the active run (the exit of `with mlflow.start_run(...)`)
EndRun(m, status) ==
    LET run == m.active[Len(m.active)]
    IN  [m EXCEPT !.runs[run].status = status,
                  !.active = SubSeq(@, 1, Len(@) - 1),
                  !.calls = Append(@, Call("end_run", run, status))]

\* a logging call of the fluent API: it logs to the active run, and starts a
\* run of its own when none is active
Log(m, op, item) ==
    LET m1 == IF m.active = <<>> THEN NewRun(m, None) ELSE m
        run == m1.active[Len(m1.active)]
    IN  [m1 EXCEPT !.runs[run].items = Append(@, [op |-> op, item |-> item]),
                   !.calls = Append(@, Call(op, run, item))]

\* lines 248-262: the parameters logged, if any
LoggedParams(args) ==
    LET derived_params ==
            (IF args.dataset_major_only # None
             THEN "data_scope_studios" :>
                      PyStr(IF args.dataset_major_only.val THEN "major_only" ELSE "all_studios")
             ELSE EmptyDict)
            @@ (IF args.dataset_english_only # None
                THEN "data_scope_language" :>
                         PyStr(IF args.dataset_english_only.val
                               THEN "english_only" ELSE "all_languages")
                ELSE EmptyDict)
        merged == (IF Truthy(args.params) THEN args.params.items ELSE EmptyDict)
                  @@ derived_params
    IN  IF Truthy(args.params) \/ DOMAIN derived_params # {}
        THEN [key \in DOMAIN merged |->
                 IF merged[key].kind \in {"str", "int", "float", "bool", "None"}
                 THEN merged[key] ELSE str(merged[key])]
        ELSE EmptyDict

\* lines 264-272: the tags set, if any
LoggedTags(args) ==
    LET derived_tags ==
            (IF args.dataset_major_only # None
             THEN "dataset.studio_scope" :>
                      PyStr(IF args.dataset_major_only.val THEN "major_only" ELSE "all_studios")
             ELSE EmptyDict)
            @@ (IF args.dataset_english_only # None
                THEN "dataset.language_scope" :>
                         PyStr(IF args.dataset_english_only.val
                               THEN "english_only" ELSE "all_languages")
                ELSE EmptyDict)
        merged == (IF Truthy(args.tags) THEN args.tags.items ELSE EmptyDict)
                  @@ derived_tags
    IN  [key \in DOMAIN merged |->
            IF merged[key] # None THEN str(merged[key]) ELSE PyStr("")]

\* lines 274-280: core_metrics
CoreMetrics(args) ==
    LET present == {key \in {"rmse", "mae", "mape", "r2"} :
                       key \in DOMAIN args.results /\ args.results[key] # None}
        core == [key \in present |-> args.results[key]]
    IN  IF Truthy(args.extra_metrics) THEN args.extra_metrics.items @@ core ELSE core

\* lines 285-302: what log_model gets beside the model
ModelItem(args) ==
    LET has_frame == args.feature_frame # None
        input_example == has_frame /\ args.input_example_rows > 0
        sample_rows == IF has_frame
                       THEN Min(Len(args.feature_frame.rows), Max(args.input_example_rows, 500))
                       ELSE 0
    IN  [flavor |-> IF args.model_type = "sklearn" THEN "sklearn" ELSE "pyfunc",
         path |-> "model",
         signature |-> has_frame /\ sample_rows > 0,
         input_example |-> input_example]

\* an exception on its way to the caller
Exception(type, message) == [kind |-> type, message |-> message]

\* what a step leaves behind: the library, the file system, the exception
Outcome(m, fs, exc) == [mlflow |-> m, filesystem |-> fs, raised |-> exc]

\* tempfile.TemporaryDirectory(): the directory it creates
TmpDir == <<"tmp">>

\* mutant of TmpDirExit: the directory is removed only when the block is
\* left without an exception
TmpDirExitOnSuccess(fs, exc) ==
    IF exc = None
    THEN {path \in fs : SubSeq(path, 1, Len(TmpDir)) # TmpDir}
    ELSE fs

\* leaving `with tempfile.TemporaryDirectory()`: the directory and all below
\* it are removed, whether the block is left by return or by exception
TmpDirExit(fs, exc) == {path \in fs : SubSeq(path, 1, Len(TmpDir)) # TmpDir}

\* lines 326-334: the CSV of the validation predictions, written into a
\* temporary directory.  to_csv raises OSError when the directory the file
\* is to be in does not exist (an artifact name with a directory part),
\* log_artifact raises when the upload fails
LogPredictions(args, m, fs) ==
    IF /\ args.validation_frame # None
       /\ "predictions" \in DOMAIN args.results
       /\ Len(AsArray(args.results["predictions"])) = FrameLen(args.validation_frame)
    THEN LET created == fs \cup {TmpDir}
             temp_path == TmpDir \o args.prediction_artifact_name
             written == created \cup {temp_path}
             os_error == Exception("OSError", "Cannot save file into a non-existent directory")
             upload_error == Exception("MlflowException", "upload failed")
         IN  IF SubSeq(temp_path, 1, Len(temp_path) - 1) \notin created
             THEN Outcome(m, TmpDirExit(created, os_error), os_error)
             ELSE IF m.upload_fails
                  THEN Outcome(m, TmpDirExit(written, upload_error), upload_error)
                  ELSE Outcome(Log(m, "log_artifact",
                                   [path |-> temp_path, artifact_path |-> "predictions"]),
                               TmpDirExit(written, None), None)
    ELSE Outcome(m, fs, None)

\* lines 247-334: the `with mlflow.start_run(...)` block; the run ends when
\* the block is left, FAILED when an exception leaves it
RunBlock(args, m, fs) ==
    LET resolved_run_name ==
            IF Truthy(args.run_name) THEN args.run_name
            ELSE IF Truthy(DictGet(args.results, "model_name"))
                 THEN DictGet(args.results, "model_name")
                 ELSE PyStr("model-run")
        started == NewRun(m, resolved_run_name)
        sanitized_params == LoggedParams(args)
        with_params == IF DOMAIN sanitized_params # {}
                       THEN Log(started, "log_params", sanitized_params) ELSE started
        sanitized_tags == LoggedTags(args)
        with_tags == IF DOMAIN sanitized_tags # {}
                     THEN Log(with_params, "set_tags", sanitized_tags) ELSE with_params
        core_metrics == CoreMetrics(args)
        with_metrics == IF DOMAIN core_metrics # {}
                        THEN Log(with_tags, "log_metrics", core_metrics) ELSE with_tags
        \* line 284: model or results.get('model_object')
        model_to_log == IF args.model # None THEN args.model
                        ELSE DictGet(args.results, "model_object")
        with_model == IF model_to_log # None
                      THEN Log(with_metrics, "log_model", ModelItem(args)) ELSE with_metrics
        out == LogPredictions(args, with_model, fs)
    IN  Outcome(EndRun(out.mlflow, IF out.raised = None THEN "FINISHED" ELSE "FAILED"),
                out.filesystem, out.raised)

RECURSIVE LogArtifacts(_, _, _, _)
\* lines 336-340, after the `with` block: the first n named artifacts (in
\* the order of the dict), each logged when its path exists
LogArtifacts(artifacts, n, m, fs) ==
    IF n = 0 THEN Outcome(m, fs, None)
    ELSE LET before == LogArtifacts(artifacts, n - 1, m, fs)
             name == artifacts.order[n]
             path_obj == artifacts.items[name]
         IN  IF before.raised # None \/ path_obj \notin fs THEN before
             ELSE IF m.upload_fails
                  THEN Outcome(IF before.mlflow.active = <<>>
                               THEN NewRun(before.mlflow, None) ELSE before.mlflow,
                               fs, Exception("MlflowException", "upload failed"))
                  ELSE Outcome(Log(before.mlflow, "log_artifact",
                                   [path |-> path_obj, artifact_path |-> name]),
                               fs, None)

\* lines 245-340: the function once the library is imported
LogWithMlflow(args, m, fs) ==
    LET block == RunBlock(args, m, fs)
    IN  IF block.raised # None THEN block
        ELSE IF Truthy(args.artifacts)
             THEN LogArtifacts(args.artifacts, Len(args.artifacts.order),
                               block.mlflow, block.filesystem)
             ELSE block

\* mutant of LogResults: a missing library makes the call a silent no-op
LogResultsOrSkip(args, m, fs) ==
    IF ~m.available THEN Outcome(m, fs, None) ELSE LogWithMlflow(args, m, fs)

\* lines 236-340: the import guard, then the logging
LogResults(args, m, fs) ==
    IF ~m.available
    THEN Outcome(m, fs,
                 Exception("RuntimeError",
                           "mlflow is not installed. Add it to requirements.txt and pip install mlflow."))
    ELSE LogWithMlflow(args, m, fs)

LogResultsToMlflow ==
    /\ pc = "call"
    /\ pc' = "done"
    /\ LET out == LogResults(log_args, mlflow, filesystem)
       IN  /\ mlflow' = out.mlflow
           /\ filesystem' = out.filesystem
           /\ raised' = out.raised
    /\ UNCHANGED log_args
    /\ UNCHANGED <<rankingVars, renameVars, top_k_overlap, featureVars, weightVars, top10Vars,
                   datasetVars>>

\* the arguments drawn.  ResultBundles: results with or without a model name,
\* the four error metrics, the predictions (two of them, or one) and the
\* model object.  TwoRowFrame: a table of two rows.
\* ArtifactDicts: the named artifacts, none, one file that exists, and a file
\* that exists after one that does not
LogArguments ==
    LET ResultBundles ==
            {name @@ metrics @@ preds @@ object :
                name \in {EmptyDict, "model_name" :> PyStr("rf")},
                metrics \in {EmptyDict, [key \in {"rmse", "mae", "mape", "r2"} |-> Float(1, 2)]},
                preds \in {EmptyDict,
                           "predictions" :> PySeq(<<Float(1, 1), Float(2, 1)>>),
                           "predictions" :> PySeq(<<Float(1, 1)>>)},
                object \in {EmptyDict, "model_object" :> [kind |-> "model", predict |-> EmptyDict]}}
        TwoRowFrame ==
            [kind |-> "DataFrame", columns |-> <<"budget">>,
             rows |-> [i \in 1..2 |-> [col \in {"budget"} |-> Float(i, 1)]]]
        ArtifactDicts ==
            {None,
             OrderedDict(<<>>, EmptyDict),
             OrderedDict(<<"plot">>, "plot" :> <<"plot.png">>),
             OrderedDict(<<"gone", "plot">>, ("gone" :> <<"gone.png">>) @@ ("plot" :> <<"plot.png">>))}
    IN
    [results : ResultBundles,
     run_name : {None, PyStr("run")},
     params : {None, PyDict([key \in {"n_estimators", "features"} |->
                               IF key = "features" THEN PySeq(<<"budget">>) ELSE PyInt(100)])},
     tags : {None, PyDict([key \in {"stage", "seed"} |->
                             IF key = "seed" THEN PyInt(7) ELSE None])},
     model : {None, [kind |-> "model", predict |-> EmptyDict]},
     model_type : {"sklearn", "pyfunc"},
     validation_frame : {None, TwoRowFrame},
     prediction_artifact_name : {<<"validation_predictions.csv">>,
                                 <<"reports", "validation_predictions.csv">>},
     artifacts : ArtifactDicts,
     extra_metrics : {None},
     feature_frame : {None, TwoRowFrame},
     input_example_rows : {10},
     dataset_major_only : {None, PyBool(TRUE)},
     dataset_english_only : {None}]

InitMlflow ==
    /\ pc = "call"
    /\ RankingIdle
    /\ FeaturesIdle
    /\ WeightsIdle
    /\ Top10Idle
    /\ DatasetIdle
    /\ log_args \in LogArguments
    /\ mlflow \in [kind : {"module"}, available : BOOLEAN, upload_fails : BOOLEAN,
                    runs : {<<>>}, active : {<<>>}, calls : {<<>>}]
    /\ filesystem = {<<"plot.png">>}
    /\ raised = None

NextMlflow == LogResultsToMlflow

SpecMlflow == InitMlflow /\ [][NextMlflow]_vars

(***************************************************************************)
(* normalize_domestic_titles (src/code/movie_lists.py).                    *)
(***************************************************************************)
\* bound: the most rows of a table handed to normalize_domestic_titles
MaxTitleRows == 2

\* movie_lists.TITLE_CORRECTIONS
TITLE_CORRECTIONS ==
    ("singing with angels" :> "Sing")
    @@ ("the wild" :> "The Wild Robot")
    @@ ("deadpool 3" :> "Deadpool & Wolverine")
    @@ ("hedgehog" :> "Sonic the Hedgehog 3")
    @@ ("transformers one (2025)" :> "Transformers One")

\* lines 392-417, on the table it is handed: every title becomes its text,
\* stripped, and is replaced when its lowercase form is a key of the
\* corrections.  strip and lower are tabulated for the titles drawn.
apply_title_corrections(frame) ==
    LET strip(text) == CASE text = " Deadpool 3" -> "Deadpool 3" [] OTHER -> text
        lower(text) ==
            CASE text = "Deadpool 3" -> "deadpool 3"
              [] text = "Deadpool" -> "deadpool"
              [] text = "Sing" -> "sing"
              [] text = "LEGO DC Comics Super Heroes: Aquaman - Rage of Atlantis"
                     -> "lego dc comics super heroes: aquaman - rage of atlantis"
              [] OTHER -> text
        mapping == TITLE_CORRECTIONS
        original(title) == strip(str(title).val)
        corrected(title) ==
            /\ lower(original(title)) \in DOMAIN mapping
            /\ mapping[lower(original(title))] # original(title)
        _rewrite(title) ==
            IF corrected(title) THEN mapping[lower(original(title))] ELSE original(title)
        corrections_applied ==
            Cardinality({i \in 1..Len(frame.rows) : corrected(frame.rows[i]["title"])})
    IN  IF "title" \notin SetOf(frame.columns)
        THEN [df |-> frame, printed |-> <<>>]
        ELSE [df |-> [frame EXCEPT !.rows =
                         [i \in 1..Len(@) |->
                             [@[i] EXCEPT !["title"] = PyStr(_rewrite(@))]]],
              printed |-> <<IF corrections_applied > 0
                            THEN Line("applied", "title", corrections_applied)
                            ELSE Line("no corrections", "title", 0)>>]

\* mutant of DropDuplicates: keep='last'
DropDuplicatesKeepLast(rows) ==
    LET kept == {i \in 1..Len(rows) :
                    \A j \in (i + 1)..Len(rows) :
                        <<rows[j]["title"], rows[j]["release_year"]>>
                            # <<rows[i]["title"], rows[i]["release_year"]>>}
    IN  SelectSeq([i \in 1..Len(rows) |-> [row |-> rows[i], keep |-> i \in kept]],
                  LAMBDA e : e.keep)

\* drop_duplicates(subset=['title', 'release_year'], keep='first'): of the
\* rows with one title and year (missing years count as equal) the first stays
DropDuplicates(rows) ==
    LET kept == {i \in 1..Len(rows) :
                    \A j \in 1..(i - 1) :
                        <<rows[j]["title"], rows[j]["release_year"]>>
                            # <<rows[i]["title"], rows[i]["release_year"]>>}
    IN  SelectSeq([i \in 1..Len(rows) |-> [row |-> rows[i], keep |-> i \in kept]],
                  LAMBDA e : e.keep)

\* lines 437-479 on the copy: the tables the function can return for a
\* non-empty table whose titles are corrected
CleanedTables(frame) ==
    LET columns == SetOf(frame.columns)
        \* pd.to_numeric(errors='coerce').astype('Int64'); NaN stands for pd.NA
        to_numeric(v) ==
            CASE v.kind = "int" -> v
              [] v = PyStr("2018") -> PyInt(2018)
              [] OTHER -> NaN
        with_year ==
            IF "release_year" \in columns
            THEN [i \in 1..Len(frame.rows) |->
                     [frame.rows[i] EXCEPT !["release_year"] = to_numeric(@)]]
            ELSE frame.rows
        YearIs(row, y) == "release_year" \in columns /\ row["release_year"] = PyInt(y)
        \* the replacements of lines 442-456: no canonical title is a legacy
        \* title, so the loop over them is one lookup for each row
        canonical(row) ==
            CASE row["title"] = PyStr("Deadpool & Wolverine") /\ YearIs(row, 2016) -> "Deadpool"
              [] row["title"] = PyStr("Deadpool & Wolverine") /\ YearIs(row, 2018) -> "Deadpool 2"
              [] row["title"] = PyStr("Jumanji: Welcome to the Jungle") /\ YearIs(row, 2016)
                     -> "The Jungle Book"
              [] row["title"] = PyStr("Jumanji: Welcome to the Jungle") /\ YearIs(row, 2021)
                     -> "Jungle Cruise"
              [] row["title"] = PyStr("Adventures of Aladdin") /\ YearIs(row, 2019) -> "Aladdin"
              [] OTHER -> ""
        restored ==
            IF "title" \in columns
            THEN [i \in 1..Len(with_year) |->
                     IF canonical(with_year[i]) = "" THEN with_year[i]
                     ELSE [col \in columns |->
                              IF col \in {"title", "original_title"}
                              THEN PyStr(canonical(with_year[i]))
                              ELSE with_year[i][col]]]
            ELSE with_year
        revenue_cols ==
            SelectSeq(<<"revenue_domestic", "domestic_revenue", "revenue">>,
                      LAMBDA col : col \in columns)
        zero_out(row) ==
            /\ "title" \in columns
            /\ row["title"] = PyStr("LEGO DC Comics Super Heroes: Aquaman - Rage of Atlantis")
            /\ YearIs(row, 2018)
        zeroed ==
            [i \in 1..Len(restored) |->
                IF zero_out(restored[i])
                THEN [col \in columns |->
                         IF col \in SetOf(revenue_cols) THEN NaN ELSE restored[i][col]]
                ELSE restored[i]]
        \* sort_values(sort_cols, ascending=[True, False, ...]): missing values
        \* last; with several keys the sort is stable, with the year alone it
        \* is the default quicksort, which may reorder equal years
        YearBefore(a, b) ==
            /\ ~isna(a["release_year"])
            /\ isna(b["release_year"]) \/ a["release_year"].num < b["release_year"].num
        RevenueBefore(a, b, col) ==
            ~isna(a[col]) /\ (isna(b[col]) \/ FLess(b[col], a[col]))
        RevenueTied(a, b, col) ==
            ~RevenueBefore(a, b, col) /\ ~RevenueBefore(b, a, col)
        Before(a, b) ==
            \/ YearBefore(a, b)
            \/ /\ ~YearBefore(b, a)
               /\ \E n \in 1..Len(revenue_cols) :
                     /\ RevenueBefore(a, b, revenue_cols[n])
                     /\ \A m \in 1..(n - 1) : RevenueTied(a, b, revenue_cols[m])
        n == Len(zeroed)
        Sorted(p) ==
            \A i, j \in 1..n : i < j =>
                /\ ~Before(zeroed[p[j]], zeroed[p[i]])
                /\ (revenue_cols # <<>> /\ ~Before(zeroed[p[i]], zeroed[p[j]])) => p[i] < p[j]
        orders == {p \in Permutations(1..n) : Sorted(p)}
    IN  IF "title" \in columns /\ "release_year" \in columns
        THEN {[frame EXCEPT !.rows =
                 LET deduplicated == DropDuplicates([i \in 1..n |-> zeroed[p[i]]])
                 IN  [i \in 1..Len(deduplicated) |-> deduplicated[i].row]] : p \in orders}
        ELSE {[frame EXCEPT !.rows = zeroed]}

\* lines 420-481: None and an empty table are handed back as they are;
\* otherwise the corrections act on a copy of the table
NormalizeDomesticTitles ==
    /\ pc = "call"
    /\ pc' = "done"
    /\ IF df = None \/ Len(df.rows) = 0
       THEN /\ cleaned' = df
            /\ UNCHANGED <<df, printed>>
       ELSE LET copied == CopyOf(<<df>>, 1)
                corrected == apply_title_corrections(copied.heap[copied.ref])
                heap == [copied.heap EXCEPT ![copied.ref] = corrected.df]
            IN  /\ cleaned' \in CleanedTables(heap[copied.ref])
                /\ df' = heap[1]
                /\ printed' = corrected.printed
    /\ UNCHANGED <<target, exclude_cols, filter_major_only,
                   drop_major_flag_from_features, verbose, prepared>>
    /\ UNCHANGED <<training, config, DEFAULT_CONFIG, DATASET_CONFIGS, dataset_path, calls>>
    /\ UNCHANGED <<rankingVars, renameVars, top_k_overlap, weightVars, top10Vars, mlflowVars>>

\* the tables drawn: of up to MaxTitleRows rows, with a revenue column of
\* either name, with none, and with an original_title column; tmdb_id is
\* the identifier of the row's record
InitTitles ==
    LET Titles == {PyStr(" Deadpool 3"), PyStr("Deadpool"), PyStr("Sing"),
                   PyStr("LEGO DC Comics Super Heroes: Aquaman - Rage of Atlantis")}
        Years == {PyInt(2016), PyInt(2018), PyStr("2018")}
        Revenues == {Float(1, 1), Float(2, 1), NaN}
        Layouts == {<<"title", "release_year", "revenue_domestic", "tmdb_id">>,
                    <<"release_year", "title", "tmdb_id">>,
                    <<"title", "original_title", "release_year", "revenue", "tmdb_id">>}
        Rows(layout) ==
            {[col \in SetOf(layout) \ {"tmdb_id"} |->
                 CASE col \in {"title", "original_title"} -> title
                   [] col = "release_year" -> release_year
                   [] OTHER -> revenue] :
                title \in Titles, release_year \in Years, revenue \in Revenues}
    IN  /\ pc = "call"
        /\ RankingIdle
        /\ \/ df = None
           \/ \E layout \in Layouts, n \in 0..MaxTitleRows :
                 \E rows \in [1..n -> Rows(layout)] :
                    df = [kind |-> "DataFrame", columns |-> layout,
                          rows |-> [i \in 1..n |-> rows[i] @@ ("tmdb_id" :> PyInt(i))]]
        /\ target = ""
        /\ exclude_cols = None
        /\ filter_major_only = FALSE
        /\ drop_major_flag_from_features = FALSE
        /\ verbose = FALSE
        /\ prepared = None
        /\ printed = <<>>
        /\ OthersIdle

NextTitles == NormalizeDomesticTitles

SpecTitles == InitTitles /\ [][NextTitles]_vars

(***************************************************************************)
(* get_dataset_path (src/dataset_config.py).                               *)
(***************************************************************************)
\* bound: the most calls of get_dataset_path in a row
MaxCalls == 2

\* lines 77-103 on the store: object 1 is DEFAULT_CONFIG, the configuration
\* read is a copy of it or the caller's mapping, and dataset_config is a
\* copy of the entry of DATASET_CONFIGS, formatted and extended in place
get_dataset_config(cfg, default_config, dataset_configs) ==
    LET resolved == IF cfg = None THEN CopyOf(<<default_config>>, 1)
                    ELSE Alloc(<<default_config>>, cfg)
        read == resolved.heap[resolved.ref]
        scope == read.scope
        year_start == read.year_start
        entry == Alloc(resolved.heap, dataset_configs[scope])
        copied == CopyOf(entry.heap, entry.ref)
        format(pattern) ==
            IF "{year_start}" \in SetOf(pattern)
            THEN [i \in 1..Len(pattern) |->
                     IF pattern[i] = "{year_start}" THEN ToString(year_start) ELSE pattern[i]]
            ELSE pattern
        formatted ==
            [copied.heap EXCEPT ![copied.ref] =
                [@ EXCEPT !.filename_pattern = format(@),
                          !.training_filename_pattern = format(@)]]
        computed ==
            [formatted EXCEPT ![copied.ref] =
                [scope |-> scope,
                 year_start |-> year_start,
                 data_dir |-> read.data_dir,
                 force_full_validation |->
                    IF "force_full_validation" \in DOMAIN read
                    THEN read.force_full_validation ELSE FALSE] @@ @]
    IN  IF scope \notin DOMAIN dataset_configs
        THEN [heap |-> resolved.heap, raised |-> [kind |-> "ValueError", message |-> scope]]
        ELSE [heap |-> computed, raised |-> None,
              entry |-> entry.ref, dataset_config |-> copied.ref]

\* mutant of Filename: the scope's own file also under force_full_validation
FilenameOfScope(dataset_config, train) ==
    IF train THEN dataset_config.training_filename_pattern
    ELSE dataset_config.filename_pattern

\* lines 110-117
Filename(dataset_config, train) ==
    IF train THEN dataset_config.training_filename_pattern
    ELSE IF dataset_config.force_full_validation /\ dataset_config.scope # "full"
         THEN <<"dataset_domestic_processed.csv">>
         ELSE dataset_config.filename_pattern

\* lines 105-119: one call, with arguments of the caller's choice; the path
\* is the sequence of its parts
GetDatasetPath ==
    /\ pc = "call"
    /\ calls < MaxCalls
    /\ calls' = calls + 1
    /\ \E train \in BOOLEAN,
          scope \in {"full", "english", "major", "english_major", "family"},
          year_start \in {2010, 2015},
          data_dir \in {"../data", "data"},
          force \in {<<>>, <<TRUE>>, <<FALSE>>},
          default \in BOOLEAN :
          LET given == [scope |-> scope, year_start |-> year_start, data_dir |-> data_dir]
                       @@ (IF force = <<>> THEN <<>>
                           ELSE [force_full_validation |-> force[1]])
              out == get_dataset_config(config', DEFAULT_CONFIG, DATASET_CONFIGS)
          IN  /\ training' = train
              /\ config' = IF default THEN None ELSE given
              /\ raised' = out.raised
              /\ DEFAULT_CONFIG' = out.heap[1]
              /\ IF out.raised = None
                 THEN /\ DATASET_CONFIGS' =
                            [DATASET_CONFIGS EXCEPT ![out.heap[out.dataset_config].scope] =
                                out.heap[out.entry]]
                      /\ dataset_path' = <<out.heap[out.dataset_config].data_dir>>
                                         \o Filename(out.heap[out.dataset_config], train)
                 ELSE UNCHANGED <<DATASET_CONFIGS, dataset_path>>
    /\ UNCHANGED <<pc, cleaned, log_args, mlflow, filesystem>>
    /\ UNCHANGED <<rankingVars, renameVars, top_k_overlap, featureVars, weightVars, top10Vars>>

InitScope ==
    /\ pc = "call"
    /\ RankingIdle
    /\ FeaturesIdle
    /\ OthersIdle

NextScope == GetDatasetPath

SpecScope == InitScope /\ [][NextScope]_vars

(***************************************************************************)
(* State functions the properties are written with.  They read the         *)
(* arguments and the returned mapping only.                                *)
(***************************************************************************)
Returned == pc \in {"done", "renamed"}

HasTable == validation_frame.kind = "DataFrame"

HasPredictions == predictions.kind = "sequence"

HasColumns == HasTable /\ {title_col, target_col} \subseteq validation_frame.columns

\* the call passes validation: the metrics are computed from the table
WellFormed ==
    /\ HasColumns
    /\ HasPredictions
    /\ Len(predictions.values) = Len(validation_frame.rows)

TitleAt(i) == validation_frame.rows[i][title_col]

TargetAt(i) == validation_frame.rows[i][target_col]

PredictionAt(i) == predictions.values[i]

\* the text form of a title that is not missing
TextOf(t) == t.val

\* row i has a title and a target
Complete(i) == TitleAt(i).kind # "None" /\ TargetAt(i).kind = "float"

\* the rows that survive the drop of missing titles and targets
Survivors == {i \in 1..Len(validation_frame.rows) : Complete(i)}

RowCount == Cardinality(Survivors)

Has(key) == key \in DOMAIN result

One == [kind |-> "float", num |-> 1, den |-> 1, rad |-> 1]

\* x is a number of the interval [0, 1]
InUnitInterval(x) ==
    x.kind = "float" /\ x.rad = 1 /\ x.den > 0 /\ 0 <= x.num /\ x.num <= x.den

\* how many rows head(min(k, n)) keeps of n rows
HeadCount(n) ==
    LET m == Min(k, n)
    IN  IF m >= 0 THEN m ELSE Max(n + m, 0)

\* dcg_ideal times max_gain * DiscountScale (targets are whole numbers)
IdealDcgScaled ==
    SumOver([i \in 1..HeadCount(Len(actual_sorted)) |->
                actual_sorted[i].target.num * InvLog2[i]],
            HeadCount(Len(actual_sorted)))

\* among the surviving rows, the targets or the predictions have fewer than
\* two distinct values
FewerThanTwoDistinct ==
    \/ Cardinality({TargetAt(i) : i \in Survivors}) < 2
    \/ Cardinality({PredictionAt(i) : i \in Survivors} \ {NaN}) < 2

(***************************************************************************)
(* C1: a prediction vector whose length differs from the table's row count *)
(* yields the empty mapping, for every table and every k.                  *)
(***************************************************************************)
C1_LengthMismatchReturnsEmpty ==
    (/\ Returned
     /\ HasTable
     /\ HasPredictions
     /\ Len(predictions.values) # Len(validation_frame.rows))
    => DOMAIN result = {}

\* a full table with complete rows and a vector one element short (the
\* 11-against-12 scenario at the model's size)
C1_Witness ==
    /\ Returned
    /\ HasColumns
    /\ HasPredictions
    /\ Len(validation_frame.rows) = MaxRows
    /\ Len(predictions.values) = MaxRows - 1
    /\ \A i \in 1..MaxRows : Complete(i)
    /\ k = DefaultK
    /\ DOMAIN result = {}

(***************************************************************************)
(* C2: the empty mapping is returned when the table or the predictions are *)
(* absent, when the title or the target column is missing, and when no row *)
(* has both a title and a target.                                          *)
(***************************************************************************)
C2_InvalidInputReturnsEmpty ==
    (/\ Returned
     /\ \/ ~HasTable
        \/ ~HasPredictions
        \/ title_col \notin validation_frame.columns
        \/ target_col \notin validation_frame.columns
        \/ Survivors = {})
    => DOMAIN result = {}

\* a table that passes every check up to the drop, where each row misses
\* its title or its target
C2_Witness ==
    /\ Returned
    /\ WellFormed
    /\ Len(validation_frame.rows) = MaxRows
    /\ Survivors = {}
    /\ \E i \in 1..MaxRows : TitleAt(i).kind # "None"
    /\ \E i \in 1..MaxRows : TargetAt(i).kind = "float"
    /\ DOMAIN result = {}

(***************************************************************************)
(* C3: every key of the returned mapping maps to a finite number, and a    *)
(* metric that is undefined is absent: recall and precision when           *)
(* min(k, row_count) is not positive, NDCG when dcg_ideal is not positive, *)
(* the rank correlations when a series is constant or a prediction is NaN. *)
(***************************************************************************)
C3_PresentMetricsAreFinite ==
    Returned =>
        /\ \A key \in DOMAIN result :
              /\ result[key].kind = "float"
              /\ result[key].den > 0
              /\ result[key].rad > 0
        /\ DOMAIN result # {} =>
              /\ Min(k, RowCount) <= 0 => ~Has("recall_at_10") /\ ~Has("precision_at_10")
              /\ IdealDcgScaled <= 0 => ~Has("ndcg_at_10")
              /\ (FewerThanTwoDistinct \/ \E i \in Survivors : PredictionAt(i) = NaN)
                    => ~Has("spearman_corr") /\ ~Has("kendall_corr")

\* k >= 1 and two rows survive, yet NDCG (dcg_ideal < 0) and the rank
\* correlations (constant targets) are undefined and so absent
C3_Witness ==
    /\ Returned
    /\ DOMAIN result = {"top10_overlap", "recall_at_10", "precision_at_10"}
    /\ k >= 1
    /\ RowCount >= 2
    /\ IdealDcgScaled < 0

(***************************************************************************)
(* C4: recall_at_10 and precision_at_10, whenever present, lie in [0, 1],  *)
(* for every input: duplicate titles, tied values, any integer k.          *)
(***************************************************************************)
C4_RecallPrecisionInUnitInterval ==
    Returned =>
        \A key \in {"recall_at_10", "precision_at_10"} \cap DOMAIN result :
            InUnitInterval(result[key])

\* two surviving rows with the same title text, recall strictly between 0 and 1
C4_Witness ==
    /\ Returned
    /\ Has("recall_at_10")
    /\ Has("precision_at_10")
    /\ 0 < result["recall_at_10"].num
    /\ result["recall_at_10"].num < result["recall_at_10"].den
    /\ \E i, j \in Survivors : i # j /\ TextOf(TitleAt(i)) = TextOf(TitleAt(j))

(***************************************************************************)
(* C5: whenever dcg_ideal > 0, ndcg_at_10 lies in [0, 1], for targets of   *)
(* any sign.                                                               *)
(***************************************************************************)
C5_NdcgInUnitInterval ==
    (Returned /\ DOMAIN result # {} /\ IdealDcgScaled > 0)
    => Has("ndcg_at_10") /\ InUnitInterval(result["ndcg_at_10"])

(***************************************************************************)
(* C6: with unique titles, pairwise distinct targets with a positive       *)
(* maximum, predictions that order the rows exactly as the targets do and  *)
(* k >= 1: top10_overlap = min(k, row_count) and recall_at_10,             *)
(* precision_at_10 and ndcg_at_10 are exactly 1.0.                         *)
(***************************************************************************)
C6_PerfectRankingScoresOne ==
    (/\ Returned
     /\ WellFormed
     /\ k >= 1
     /\ Len(validation_frame.rows) >= 1
     /\ \A i \in 1..Len(validation_frame.rows) :
           Complete(i) /\ PredictionAt(i).kind = "float"
     /\ \A i, j \in 1..Len(validation_frame.rows) :
           i # j => /\ TextOf(TitleAt(i)) # TextOf(TitleAt(j))
                    /\ TargetAt(i) # TargetAt(j)
                    /\ (TargetAt(i).num < TargetAt(j).num
                            <=> PredictionAt(i).num < PredictionAt(j).num)
     /\ \E i \in 1..Len(validation_frame.rows) : TargetAt(i).num > 0)
    => /\ {"top10_overlap", "recall_at_10", "precision_at_10", "ndcg_at_10"}
              \subseteq DOMAIN result
       /\ result["top10_overlap"].num = Min(k, RowCount)
       /\ result["top10_overlap"].den = 1
       /\ result["recall_at_10"] = One
       /\ result["precision_at_10"] = One
       /\ result["ndcg_at_10"] = One

(***************************************************************************)
(* C7: top10_overlap is present in every non-empty result and equals the   *)
(* number of distinct title texts that occur both among the top            *)
(* min(k, row_count) rows by actual target and among the top               *)
(* min(k, row_count) rows by predicted value.                              *)
(***************************************************************************)
C7_OverlapCountsSharedTopTitles ==
    (Returned /\ DOMAIN result # {}) =>
        LET top == 1..Min(k, RowCount)
            actual_texts == {TextOf(actual_sorted[i].title) : i \in top}
            predicted_texts == {TextOf(predicted_sorted[i].title) : i \in top}
        IN  /\ Has("top10_overlap")
            /\ result["top10_overlap"].den = 1
            /\ result["top10_overlap"].num =
                   Cardinality({t \in actual_texts : t \in predicted_texts})

(***************************************************************************)
(* C8: when the surviving targets or the surviving predictions have fewer  *)
(* than two distinct values, the result holds neither spearman_corr nor    *)
(* kendall_corr.                                                           *)
(***************************************************************************)
C8_ConstantSeriesOmitsCorrelations ==
    (Returned /\ WellFormed /\ FewerThanTwoDistinct)
    => ~Has("spearman_corr") /\ ~Has("kendall_corr")

\* a single target value across two rows with distinct predictions: the
\* other metrics are there, the correlations are not
C8_Witness ==
    /\ Returned
    /\ WellFormed
    /\ RowCount >= 2
    /\ Cardinality({TargetAt(i) : i \in Survivors}) = 1
    /\ Cardinality({PredictionAt(i) : i \in Survivors} \ {NaN}) = 2
    /\ Has("top10_overlap")
    /\ Has("ndcg_at_10")
    /\ ~Has("spearman_corr")
    /\ ~Has("kendall_corr")

(***************************************************************************)
(* C10: renaming the titles changes no entry of the returned mapping.      *)
(* Stated for every injective renaming it fails: the titles are compared   *)
(* by their text, and two different cells can share a text (the number 1   *)
(* and the string "1").  It holds for the renamings under which two titles *)
(* have equal texts afterwards exactly when they had equal texts before.   *)
(***************************************************************************)
InjectiveRenaming(f) == \A t, u \in DOMAIN f : t # u => f[t] # f[u]

TextFaithful(f) ==
    \A t, u \in DOMAIN f : (TextOf(f[t]) = TextOf(f[u])) <=> (TextOf(t) = TextOf(u))

\* C10 as claimed: any injective renaming
C10_InjectiveRenamingKeepsMetrics ==
    (pc = "renamed" /\ InjectiveRenaming(renaming)) => result_renamed = result

\* C10 as amended: a renaming that keeps equal texts equal and different texts different
C10_TextFaithfulRenamingKeepsMetrics ==
    (pc = "renamed" /\ TextFaithful(renaming)) => result_renamed = result

\* a table with two title texts, both changed by the renaming, and a title
\* shared by the two top-k lists
C10_Witness ==
    /\ pc = "renamed"
    /\ TextFaithful(renaming)
    /\ Cardinality({TextOf(t) : t \in DOMAIN renaming}) >= 2
    /\ \A t \in DOMAIN renaming : TextOf(renaming[t]) # TextOf(t)
    /\ k = 1
    /\ Has("top10_overlap")
    /\ result["top10_overlap"].num = 1
    /\ result_renamed = result

FeaturesReturned == pc = "done" /\ df.kind = "DataFrame"

\* the exclusion set of the call: the caller's list or the default one, and
\* is_major_studio when the flag is to be dropped from the features
ExclusionSet ==
    (IF exclude_cols.kind = "None"
     THEN {DEFAULT_EXCLUDE_COLS[i] : i \in 1..Len(DEFAULT_EXCLUDE_COLS)}
     ELSE {exclude_cols.values[i] : i \in 1..Len(exclude_cols.values)})
    \cup (IF drop_major_flag_from_features THEN {"is_major_studio"} ELSE {})

NumericOrBoolean(col) == df.dtypes[col] \in {"int64", "float64", "bool"}

\* the distinct non-missing values of a column of a table
DistinctValues(table, col) ==
    {v \in {table.rows[i][col] : i \in 1..Len(table.rows)} : v.kind \notin {"nan", "None"}}

\* the admission rule, on the rows of the given table
Usable(table, col) ==
    /\ col \notin ExclusionSet
    /\ NumericOrBoolean(col) \/ Cardinality(DistinctValues(table, col)) <= 2

\* a non-excluded, non-numeric column with more distinct values than two
HighCardinality(table, col) ==
    /\ col \notin ExclusionSet
    /\ ~NumericOrBoolean(col)
    /\ Cardinality(DistinctValues(table, col)) > 2

\* the column is named by a printed line of the excluded columns
Reported(col) ==
    \E i \in 1..Len(printed) : printed[i].line = "excluded" /\ printed[i].col = col

ColumnNames == {df.columns[i] : i \in 1..Len(df.columns)}

FeatureSet == {prepared.feature_cols[i] : i \in 1..Len(prepared.feature_cols)}

(***************************************************************************)
(* C12: the returned feature list is exactly the non-excluded columns of   *)
(* the table that are numeric, boolean or have at most two distinct        *)
(* non-missing values, in column order; every other non-excluded column is *)
(* left out and reported.  As claimed (the table is the one passed in, the *)
(* report is unconditional) it fails; it holds with the distinct values    *)
(* counted over the rows of the returned table and the report made when    *)
(* verbose is true.                                                        *)
(***************************************************************************)
C12_FeaturesFollowAdmissionRule ==
    FeaturesReturned =>
        /\ prepared.feature_cols = SelectSeq(df.columns, LAMBDA col : Usable(df, col))
        /\ \A col \in ColumnNames :
              HighCardinality(df, col) => col \notin FeatureSet /\ Reported(col)

\* C12 as amended
C12_FeaturesFollowRuleOnReturnedRows ==
    FeaturesReturned =>
        /\ prepared.feature_cols =
               SelectSeq(df.columns, LAMBDA col : Usable(prepared.df_prepared, col))
        /\ \A col \in ColumnNames :
              HighCardinality(prepared.df_prepared, col) =>
                  /\ col \notin FeatureSet
                  /\ verbose => Reported(col)

\* a verbose call on a table that has a string column with three distinct
\* values (left out and reported) beside a binary-like string column and
\* numeric columns (admitted)
C12_Witness ==
    /\ FeaturesReturned
    /\ verbose
    /\ \E col \in ColumnNames :
          HighCardinality(prepared.df_prepared, col) /\ Reported(col) /\ col \notin FeatureSet
    /\ \E col \in FeatureSet : ~NumericOrBoolean(col)
    /\ \E col \in FeatureSet : NumericOrBoolean(col)

(***************************************************************************)
(* C13: whatever the table, the target name and the exclusion list, the    *)
(* returned feature list does not contain the target column, and the       *)
(* target name is returned unchanged.                                      *)
(***************************************************************************)
C13_TargetNeverAFeature ==
    FeaturesReturned =>
        /\ target \notin FeatureSet
        /\ prepared.target = target

(***************************************************************************)
(* C14: create_sample_weights returns one weight per row; a row's weight   *)
(* is pandemic_weight exactly when its flag is true and 1.0 otherwise      *)
(* (flag false, zero or missing); without the flag column every weight is  *)
(* 1.0.                                                                    *)
(***************************************************************************)
WeightsReturned == pc = "done" /\ weights.kind = "ndarray"

\* the flag of row i is true: True, or the number one
FlagIsTrue(i) ==
    /\ pandemic_flag \in ColumnNames
    /\ df.rows[i][pandemic_flag] \in
          {[kind |-> "bool", val |-> TRUE], [kind |-> "int", num |-> 1], One}

C14_WeightFollowsFlag ==
    WeightsReturned =>
        /\ Len(weights.values) = Len(df.rows)
        /\ \A i \in 1..Len(df.rows) :
              weights.values[i] = IF FlagIsTrue(i) THEN pandemic_weight ELSE One

(***************************************************************************)
(* State functions of the report builder's properties.                     *)
(***************************************************************************)
Top10Returned == pc = "done" /\ data.kind = "DataFrame"

\* the rows of the dataset that have the requested year
YearRowIds ==
    {i \in 1..Len(data.rows) : data.rows[i]["release_year"] = [kind |-> "int", num |-> year]}

\* the predicted revenue of row i: v when the model predicts log1p(v)
PredictedOf(i) ==
    LET out == model.predict[[col \in {"budget"} |-> data.rows[i]["budget"]]]
    IN  IF out.kind = "log1p" THEN out.of ELSE NaN

\* row a ranks before row b: a higher predicted value (a missing one is the
\* lowest), or the same value and an earlier place in the dataset
RanksBefore(a, b) ==
    LET pa == PredictedOf(a)
        pb == PredictedOf(b)
    IN  \/ pa.kind = "float" /\ pb.kind = "nan"
        \/ pa.kind = "float" /\ pb.kind = "float" /\ pa.num * pb.den > pb.num * pa.den
        \/ pa = pb /\ a < b

\* the dataset row behind the j-th returned row (titles are unique)
ReturnedId(j) ==
    CHOOSE i \in 1..Len(data.rows) : data.rows[i]["title"] = top10.rows[j]["title"]

(***************************************************************************)
(* C15: get_top10_predictions returns None, without invoking the model,    *)
(* exactly when no row has the requested year; otherwise it returns        *)
(* min(10, rows of the year) rows: the rows of the year with the highest   *)
(* predicted values, in descending order, ties in original row order.      *)
(***************************************************************************)
C15_Top10RowsInStableOrder ==
    Top10Returned =>
        /\ (top10.kind = "None") <=> (YearRowIds = {})
        /\ YearRowIds = {} => predict_calls = 0
        /\ YearRowIds # {} =>
              LET m == Len(top10.rows)
                  ids == {ReturnedId(j) : j \in 1..m}
              IN  /\ m = Min(10, Cardinality(YearRowIds))
                  /\ ids \subseteq YearRowIds
                  /\ \A i, j \in 1..m : i < j => RanksBefore(ReturnedId(i), ReturnedId(j))
                  /\ \A a \in ids : \A b \in YearRowIds \ ids : RanksBefore(a, b)

(***************************************************************************)
(* State functions of the log sink's properties.                           *)
(***************************************************************************)
LogReturned == pc = "done" /\ mlflow.kind = "module"

LoggingOps == {"log_params", "set_tags", "log_metrics", "log_model", "log_artifact"}

\* the first call to the library, with which the call starts its run, and the
\* positions, in the sequence of calls, at which that run is ended
RunStart == Head(mlflow.calls)

RunEnds == {i \in 1..Len(mlflow.calls) :
               mlflow.calls[i].op = "end_run" /\ mlflow.calls[i].run = RunStart.run}

(***************************************************************************)
(* C16: every item log_results_to_mlflow logs (parameters, tags, metrics,  *)
(* the model, the predictions CSV, each named file artifact) is logged     *)
(* after the run of that call has started and before it has ended.         *)
(***************************************************************************)
C16_EverythingLoggedInsideTheRun ==
    LogReturned =>
        \A i \in 1..Len(mlflow.calls) :
            mlflow.calls[i].op \in LoggingOps =>
                /\ RunStart.op = "start_run"
                /\ mlflow.calls[i].run = RunStart.run
                /\ i > 1
                /\ \A e \in RunEnds : i < e

(***************************************************************************)
(* C17: when the tracking library cannot be imported, the call raises an   *)
(* error with a message that says what to do, before any run is started    *)
(* and before anything is logged; it does not return normally.             *)
(***************************************************************************)
C17_MissingLibraryRaises ==
    (LogReturned /\ ~mlflow.available) =>
        /\ raised.kind = "RuntimeError"
        /\ raised.message # ""
        /\ mlflow.calls = <<>>
        /\ mlflow.runs = <<>>
        /\ mlflow.active = <<>>

\* the library is missing and the call had parameters, metrics, a model,
\* predictions and an existing artifact to log
C17_Witness ==
    /\ LogReturned
    /\ ~mlflow.available
    /\ raised.kind = "RuntimeError"
    /\ log_args.params.kind = "dict"
    /\ "rmse" \in DOMAIN log_args.results
    /\ log_args.model.kind = "model"
    /\ log_args.validation_frame.kind = "DataFrame"
    /\ "predictions" \in DOMAIN log_args.results
    /\ log_args.artifacts.kind = "dict"
    /\ <<"plot.png">> \in filesystem

(***************************************************************************)
(* C18: in compute_ranking_metrics, rows with equal targets keep their     *)
(* original row order in the actual ranking, and rows with equal predicted *)
(* values keep it in the predicted ranking, so the earlier rows of a tie   *)
(* across the cutoff are the ones in the top k.                            *)
(***************************************************************************)
C18_TiesKeepOriginalRowOrder ==
    (Returned /\ DOMAIN result # {}) =>
        /\ \A i, j \in 1..Len(actual_sorted) :
              (i < j /\ actual_sorted[i].target = actual_sorted[j].target)
                  => actual_sorted[i].index < actual_sorted[j].index
        /\ \A i, j \in 1..Len(predicted_sorted) :
              (i < j /\ predicted_sorted[i].predicted = predicted_sorted[j].predicted)
                  => predicted_sorted[i].index < predicted_sorted[j].index

(***************************************************************************)
(* C19: the metrics are computed over exactly the rows whose title and     *)
(* target are both present: a row that misses its title or its target is   *)
(* in neither ranking and not in row_count; a row that misses only its     *)
(* prediction stays in both rankings and counts toward row_count.          *)
(***************************************************************************)
IndicesOf(rows) == {rows[i].index : i \in 1..Len(rows)}

C19_RowsWithTitleAndTargetAreRanked ==
    (Returned /\ WellFormed) =>
        /\ (DOMAIN result = {}) <=> (Survivors = {})
        /\ DOMAIN result # {} =>
              /\ IndicesOf(actual_sorted) = Survivors
              /\ IndicesOf(predicted_sorted) = Survivors
              /\ Len(actual_sorted) = RowCount
              /\ Len(predicted_sorted) = RowCount
              /\ Min(k, RowCount) > 0 =>
                    /\ Has("recall_at_10")
                    /\ result["recall_at_10"].num * Min(k, RowCount)
                           = result["top10_overlap"].num * result["recall_at_10"].den

\* a table with a row that misses its title (dropped) and a complete row
\* whose prediction is missing (kept, the only row counted)
C19_Witness ==
    /\ Returned
    /\ WellFormed
    /\ k >= 1
    /\ \E i \in 1..Len(validation_frame.rows) : ~Complete(i)
    /\ \E i \in Survivors : PredictionAt(i).kind = "nan"
    /\ RowCount = 1
    /\ Has("recall_at_10")
    /\ result["recall_at_10"] = One

(***************************************************************************)
(* C20: prepare_features and compute_ranking_metrics leave their inputs    *)
(* unchanged: across any call the caller's table keeps its columns, rows   *)
(* and values (no 'predicted' column, no row filtered out), and the        *)
(* caller's exclude_cols sequence is the same, also when                   *)
(* drop_major_flag_from_features is true.                                  *)
(***************************************************************************)
C20_CallsLeaveInputsUnchanged ==
    [][/\ df' = df
       /\ exclude_cols' = exclude_cols
       /\ validation_frame' = validation_frame]_vars

\* prepare_features has returned from a call with the caller's own
\* exclusion sequence, the major-studio filter and the drop of the flag: the
\* returned table lost rows and the flag is no feature, yet the caller's
\* sequence does not name the flag and the caller's table has all its rows
C20_Witness ==
    /\ FeaturesReturned
    /\ "feature_cols" \in DOMAIN prepared
    /\ drop_major_flag_from_features
    /\ filter_major_only
    /\ exclude_cols.kind = "sequence"
    /\ "is_major_studio" \in ColumnNames
    /\ "is_major_studio" \notin FeatureSet
    /\ \A i \in 1..Len(exclude_cols.values) : exclude_cols.values[i] # "is_major_studio"
    /\ Len(prepared.df_prepared.rows) < Len(df.rows)

\* the call reached line 331: the library is there, a validation table and
\* predictions of its length were passed
TmpDirCreated ==
    /\ LogReturned
    /\ mlflow.available
    /\ log_args.validation_frame # None
    /\ "predictions" \in DOMAIN log_args.results
    /\ Len(log_args.results["predictions"].values) = Len(log_args.validation_frame.rows)

(***************************************************************************)
(* C21: whenever log_results_to_mlflow has created the temporary directory *)
(* for the CSV of the validation predictions, neither the directory nor    *)
(* anything below it exists when control is back with the caller, whether  *)
(* the call returned or writing the CSV or logging the artifact raised.    *)
(***************************************************************************)
C21_TmpDirRemovedOnEveryExit ==
    TmpDirCreated =>
        \A path \in filesystem : path[1] # "tmp"

\* the call created the directory and left by an exception: writing the CSV
\* raised, or the upload did
C21_Witness ==
    /\ TmpDirCreated
    /\ raised.kind \in {"OSError", "MlflowException"}

\* a non-empty table with a title and a release_year column
Normalizable(table) ==
    /\ table # None
    /\ Len(table.rows) > 0
    /\ {"title", "release_year"} \subseteq SetOf(table.columns)

\* the year of a row of the table passed in, as a number
InputYear(row) ==
    IF row["release_year"].kind = "int" THEN row["release_year"].num ELSE 2018

\* the title and year an input row stands for once its title is corrected:
\* " Deadpool 3" is Deadpool & Wolverine, which is Deadpool in 2016 and
\* Deadpool 2 in 2018
InputPair(row) ==
    IF row["title"] = PyStr(" Deadpool 3")
    THEN <<IF InputYear(row) = 2016 THEN "Deadpool" ELSE "Deadpool 2", InputYear(row)>>
    ELSE <<row["title"].val, InputYear(row)>>

ReturnedPair(row) == <<row["title"].val, row["release_year"].num>>

\* the revenue column of a table, when it has one
RevenueColumns(table) ==
    {"revenue_domestic", "domestic_revenue", "revenue"} \cap SetOf(table.columns)

\* the title whose revenue the function clears
ClearedPair == <<"LEGO DC Comics Super Heroes: Aquaman - Rage of Atlantis", 2018>>

\* the row kept is one of the input rows named, and none of them has a
\* higher revenue
KeptIsHighest(row, input, col, observed) ==
    observed # {} =>
        \E i \in observed :
            /\ row["tmdb_id"] = input.rows[i]["tmdb_id"]
            /\ \A n \in observed : ~FLess(input.rows[i][col], input.rows[n][col])

\* the returned table has one row for each pair of the table passed in, and
\* no two rows of one pair
OneRowForEachPair(input, returned) ==
    /\ \A i, j \in 1..Len(returned.rows) :
          i # j => ReturnedPair(returned.rows[i]) # ReturnedPair(returned.rows[j])
    /\ \A i \in 1..Len(input.rows) : \E j \in 1..Len(returned.rows) :
          ReturnedPair(returned.rows[j]) = InputPair(input.rows[i])

(***************************************************************************)
(* C22: for a non-empty table with title and release_year columns, the     *)
(* table normalize_domestic_titles returns has no two rows with the same   *)
(* title and year, for each pair the row kept has the highest observed     *)
(* revenue, and the table passed in is not modified.  As claimed: highest  *)
(* among the revenues of the input rows of the pair.                       *)
(***************************************************************************)
C22_KeepsHighestInputRevenue ==
    [][(pc = "call" /\ pc' = "done" /\ Normalizable(df)) =>
          /\ df' = df
          /\ OneRowForEachPair(df, cleaned')
          /\ \A col \in RevenueColumns(df) : \A j \in 1..Len(cleaned'.rows) :
                KeptIsHighest(cleaned'.rows[j], df, col,
                              {n \in 1..Len(df.rows) :
                                  /\ InputPair(df.rows[n]) = ReturnedPair(cleaned'.rows[j])
                                  /\ ~isna(df.rows[n][col])})]_vars

(***************************************************************************)
(* C22, amended: as above, with the highest observed revenue taken among   *)
(* the input rows of the pair after the title corrections and after the    *)
(* revenues of the direct-to-video titles were cleared (the rows of such   *)
(* a title have no observed revenue).                                      *)
(***************************************************************************)
C22_KeepsHighestRevenueAfterClearing ==
    [][(pc = "call" /\ pc' = "done" /\ Normalizable(df)) =>
          /\ df' = df
          /\ OneRowForEachPair(df, cleaned')
          /\ \A col \in RevenueColumns(df) : \A j \in 1..Len(cleaned'.rows) :
                KeptIsHighest(cleaned'.rows[j], df, col,
                              {n \in 1..Len(df.rows) :
                                  /\ InputPair(df.rows[n]) = ReturnedPair(cleaned'.rows[j])
                                  /\ InputPair(df.rows[n]) # ClearedPair
                                  /\ ~isna(df.rows[n][col])})]_vars

\* the call returned for a table of two rows that are one film after the
\* title corrections, the second with the higher revenue: one row is left,
\* with the corrected title and the higher revenue
C22_Witness ==
    /\ pc = "done"
    /\ Normalizable(df)
    /\ Len(df.rows) = 2
    /\ df.rows[1]["title"] # df.rows[2]["title"]
    /\ InputPair(df.rows[1]) = InputPair(df.rows[2])
    /\ "revenue_domestic" \in SetOf(df.columns)
    /\ df.rows[1]["revenue_domestic"] = Float(1, 1)
    /\ df.rows[2]["revenue_domestic"] = Float(2, 1)
    /\ Len(cleaned.rows) = 1
    /\ cleaned.rows[1]["tmdb_id"] = df.rows[2]["tmdb_id"]
    /\ cleaned.rows[1]["revenue_domestic"] = Float(2, 1)

\* the configuration a call of get_dataset_path works with
ConfigRead == IF config = None THEN DefaultConfigLiteral ELSE config

\* a file name pattern of the module with the year of the call in it
Substituted(pattern) ==
    [i \in 1..Len(pattern) |->
        IF pattern[i] = "{year_start}" THEN ToString(ConfigRead.year_start) ELSE pattern[i]]

ForcedToFull ==
    /\ "force_full_validation" \in DOMAIN ConfigRead
    /\ ConfigRead.force_full_validation
    /\ ConfigRead.scope # "full"

(***************************************************************************)
(* C23: after any sequence of calls of get_dataset_path, DEFAULT_CONFIG    *)
(* and DATASET_CONFIGS are as the module defines them, and the last call   *)
(* raised ValueError when its scope is unknown and otherwise returned      *)
(* data_dir joined with the scope's training file when training is true,   *)
(* with 'dataset_domestic_processed.csv' when force_full_validation is     *)
(* true and the scope is not 'full', and with the scope's own file         *)
(* otherwise, year_start substituted.                                      *)
(***************************************************************************)
C23_PathFollowsScopeAndConfigsStay ==
    calls > 0 =>
        /\ DEFAULT_CONFIG = DefaultConfigLiteral
        /\ DATASET_CONFIGS = DatasetConfigsLiteral
        /\ IF ConfigRead.scope \notin DOMAIN DatasetConfigsLiteral
           THEN raised.kind = "ValueError"
           ELSE /\ raised = None
                /\ dataset_path =
                      <<ConfigRead.data_dir>> \o
                      (IF training
                       THEN Substituted(DatasetConfigsLiteral[ConfigRead.scope].training_filename_pattern)
                       ELSE IF ForcedToFull
                            THEN <<"dataset_domestic_processed.csv">>
                            ELSE Substituted(DatasetConfigsLiteral[ConfigRead.scope].filename_pattern))

\* a second call, for validation data of the major-studio scope from 2015
\* with force_full_validation, returned the full-dataset file
C23_Witness ==
    /\ calls = 2
    /\ ~training
    /\ config # None
    /\ ConfigRead.scope = "major"
    /\ ConfigRead.year_start = 2015
    /\ ForcedToFull
    /\ raised = None
    /\ dataset_path = <<ConfigRead.data_dir, "dataset_domestic_processed.csv">>

====
